---------------------------- MODULE Spec2Model ----------------------------
(***************************************************************************)
(* Model of the computation core of snowspot and of two of its callers:    *)
(*   - app/services/quality_scorer.py : the snow quality scorer            *)
(*   - app/services/data_fusion.py    : the data fusion engine             *)
(*   - app/scrapers/base_scraper.py   : BaseScraper.run and _fetch_url     *)
(*   - app/routers/conditions.py      : create_conditions_bulk             *)
(*                                                                         *)
(* Numbers:                                                                *)
(*   - the scorer only compares its inputs with thresholds: inches,        *)
(*     degrees F, mph and percent are counted in units of 1/Scale;         *)
(*   - scores are whole points (the code only ever returns whole floats);  *)
(*   - the fusion engine computes with floats: fractions rounded to        *)
(*     MantissaBits significant bits after every operation;                *)
(*   - an Optional[x] is the empty tuple (None) or the 1-tuple <<x>>.      *)
(***************************************************************************)
EXTENDS Integers, Sequences, FiniteSets, TLC

VARIABLES
    conditions,     \* the SnowConditions value the caller holds
    quality,        \* locals and return value of the last scorer call
    source_weights, \* the module-level dict SOURCE_WEIGHTS
    built,          \* arguments of the last DataSource construction
    sources,        \* the list of DataSource objects the caller holds
    clock,          \* the wall clock, in whole hours (UTC)
    fusion,         \* arguments and return value of the last fusion call
    earlier,        \* a fusion call the caller repeats later, both outcomes
    threads,        \* the fusion calls running in parallel, one per thread
    scraper,        \* a BaseScraper object, its sessions and its runs
    fetch,          \* one call of BaseScraper._fetch_url and its attempts
    table,          \* the rows of the conditions table
    bulk            \* the last request to create_conditions_bulk

scorer_vars == <<conditions, quality>>
fusion_vars ==
    <<source_weights, built, sources, clock, fusion, earlier, threads>>
service_vars == <<scraper, fetch, table, bulk>>
vars ==
    <<conditions, quality, source_weights, built, sources, clock, fusion,
      earlier, threads, scraper, fetch, table, bulk>>

---------------------------------------------------------------------------
(* Optional values *)

None == <<>>
Some(x) == <<x>>
IsNone(o) == o = <<>>
Val(o) == o[1]

---------------------------------------------------------------------------
(* Bounds of the model *)

\* Inputs are multiples of 1/Scale (inch, degree, mph, percent).
Scale == 2
\* An absurdly large magnitude, in units of 1/Scale.
Huge == 100000
\* Longest source list handed to fuse_measurements.
MaxSources == 2
\* The wall clock runs from hour 0 to hour MaxClock.
MaxClock == 2
\* Significant bits of a float (53 in the code's IEEE 754 doubles).
MantissaBits == 4
\* float ** float raises OverflowError from 2^MaxExponent on (1024 in the
\* code's doubles).
MaxExponent == 2

---------------------------------------------------------------------------
(* quality_scorer.py *)

Fields ==
    {"new_snow_24h_in", "temperature_f", "wind_speed_mph",
     "days_since_snow", "humidity_percent"}

\* Input values per field: each breakpoint of the code, the value one unit
\* below (or above, for the closed temperature bands), and out-of-range ones.
NewSnowInputs ==
    {-1, 0, 1, Scale - 1, Scale, 3 * Scale - 1, 3 * Scale,
     6 * Scale - 1, 6 * Scale, 12 * Scale - 1, 12 * Scale, Huge}
TemperatureInputs ==
    {-Huge, 5 * Scale - 1, 5 * Scale, 10 * Scale - 1, 10 * Scale,
     15 * Scale - 1, 15 * Scale, 28 * Scale, 28 * Scale + 1,
     32 * Scale, 32 * Scale + 1, 35 * Scale, 35 * Scale + 1, Huge}
WindInputs ==
    {-1, 0, 10 * Scale - 1, 10 * Scale, 20 * Scale - 1, 20 * Scale,
     30 * Scale - 1, 30 * Scale}
\* days_since_snow is an int: whole days, not scaled.
SnowAgeInputs == {-1, 0, 1, 2, 3, 4, 7, 8}
HumidityInputs ==
    {-1, 0, 30 * Scale - 1, 30 * Scale, 50 * Scale - 1, 50 * Scale,
     70 * Scale - 1, 70 * Scale, 101 * Scale}

FieldInputs(f) ==
    CASE f = "new_snow_24h_in" -> NewSnowInputs
      [] f = "temperature_f" -> TemperatureInputs
      [] f = "wind_speed_mph" -> WindInputs
      [] f = "days_since_snow" -> SnowAgeInputs
      [] f = "humidity_percent" -> HumidityInputs

\* SnowConditions(): every field defaults to None.
SnowConditions == [f \in Fields |-> None]

new_snow_top_bucket_off_by_one(new_snow_inches) ==
    IF IsNone(new_snow_inches) THEN 0
    ELSE LET x == Val(new_snow_inches) IN
         IF x > 12 * Scale THEN 30
         ELSE IF x >= 6 * Scale THEN 25
         ELSE IF x >= 3 * Scale THEN 20
         ELSE IF x >= 1 * Scale THEN 15
         ELSE IF x > 0 THEN 10
         ELSE 0

new_snow_top_bucket_35(new_snow_inches) ==
    IF IsNone(new_snow_inches) THEN 0
    ELSE LET x == Val(new_snow_inches) IN
         IF x >= 12 * Scale THEN 35
         ELSE IF x >= 6 * Scale THEN 25
         ELSE IF x >= 3 * Scale THEN 20
         ELSE IF x >= 1 * Scale THEN 15
         ELSE IF x > 0 THEN 10
         ELSE 0

calculate_new_snow_score(new_snow_inches) ==
    IF IsNone(new_snow_inches) THEN 0
    ELSE LET x == Val(new_snow_inches) IN
         IF x >= 12 * Scale THEN 30
         ELSE IF x >= 6 * Scale THEN 25
         ELSE IF x >= 3 * Scale THEN 20
         ELSE IF x >= 1 * Scale THEN 15
         ELSE IF x > 0 THEN 10
         ELSE 0

temperature_upper_ends_exclusive(temperature_f) ==
    IF IsNone(temperature_f) THEN 0
    ELSE LET t == Val(temperature_f) IN
         IF 15 * Scale <= t /\ t < 28 * Scale THEN 25
         ELSE IF 10 * Scale <= t /\ t < 32 * Scale THEN 20
         ELSE IF 5 * Scale <= t /\ t < 35 * Scale THEN 15
         ELSE IF t < 5 * Scale THEN 10
         ELSE 5

calculate_temperature_score(temperature_f) ==
    IF IsNone(temperature_f) THEN 0
    ELSE LET t == Val(temperature_f) IN
         IF 15 * Scale <= t /\ t <= 28 * Scale THEN 25
         ELSE IF 10 * Scale <= t /\ t <= 32 * Scale THEN 20
         ELSE IF 5 * Scale <= t /\ t <= 35 * Scale THEN 15
         ELSE IF t < 5 * Scale THEN 10
         ELSE 5

\* calculate_wind_score with the bucket ends compared by <= instead of <.
wind_bucket_ends_inclusive(wind_speed_mph) ==
    IF IsNone(wind_speed_mph) THEN 0
    ELSE LET w == Val(wind_speed_mph) IN
         IF w < 0 THEN 0
         ELSE IF w <= 10 * Scale THEN 15
         ELSE IF w <= 20 * Scale THEN 10
         ELSE IF w <= 30 * Scale THEN 5
         ELSE 0

calculate_wind_score(wind_speed_mph) ==
    IF IsNone(wind_speed_mph) THEN 0
    ELSE LET w == Val(wind_speed_mph) IN
         IF w < 0 THEN 0
         ELSE IF w < 10 * Scale THEN 15
         ELSE IF w < 20 * Scale THEN 10
         ELSE IF w < 30 * Scale THEN 5
         ELSE 0

calculate_snow_age_score(days_since_snow) ==
    IF IsNone(days_since_snow) THEN 0
    ELSE LET d == Val(days_since_snow) IN
         IF d < 0 THEN 0
         ELSE IF d = 0 THEN 20
         ELSE IF d = 1 THEN 15
         ELSE IF d <= 3 THEN 10
         ELSE IF d <= 7 THEN 5
         ELSE 0

humidity_without_none_check(humidity_percent) ==
    LET h == IF IsNone(humidity_percent) THEN Huge ELSE Val(humidity_percent) IN
    IF h < 0 THEN 0
    ELSE IF h < 30 * Scale THEN 10
    ELSE IF h < 50 * Scale THEN 8
    ELSE IF h < 70 * Scale THEN 5
    ELSE 2

calculate_humidity_score(humidity_percent) ==
    IF IsNone(humidity_percent) THEN 0
    ELSE LET h == Val(humidity_percent) IN
         IF h < 0 THEN 0
         ELSE IF h < 30 * Scale THEN 10
         ELSE IF h < 50 * Scale THEN 8
         ELSE IF h < 70 * Scale THEN 5
         ELSE 2

Min(a, b) == IF a <= b THEN a ELSE b

\* The five addends of calculate_quality_score, in the order the code adds them.
SubScores(c) ==
    <<calculate_new_snow_score(c["new_snow_24h_in"]),
      calculate_temperature_score(c["temperature_f"]),
      calculate_wind_score(c["wind_speed_mph"]),
      calculate_snow_age_score(c["days_since_snow"]),
      calculate_humidity_score(c["humidity_percent"])>>

\* The running total `score` before the final min(100.0, score).
UncappedScore(c) ==
    LET s == SubScores(c) IN 0 + s[1] + s[2] + s[3] + s[4] + s[5]

quality_score_wind_subtracted(c) ==
    LET s == SubScores(c) IN Min(100, 0 + s[1] + s[2] - s[3] + s[4] + s[5])

calculate_quality_score(c) == Min(100, UncappedScore(c))

\* get_quality_description with the thresholds compared by > instead of >=.
description_thresholds_exclusive(score) ==
    IF score > 90 THEN "Epic Powder Day!"
    ELSE IF score > 80 THEN "Excellent Conditions"
    ELSE IF score > 70 THEN "Great Day to Ski"
    ELSE IF score > 60 THEN "Good Conditions"
    ELSE IF score > 50 THEN "Decent Skiing"
    ELSE IF score > 40 THEN "Fair Conditions"
    ELSE "Poor Conditions"

get_quality_description(score) ==
    IF score >= 90 THEN "Epic Powder Day!"
    ELSE IF score >= 80 THEN "Excellent Conditions"
    ELSE IF score >= 70 THEN "Great Day to Ski"
    ELSE IF score >= 60 THEN "Good Conditions"
    ELSE IF score >= 50 THEN "Decent Skiing"
    ELSE IF score >= 40 THEN "Fair Conditions"
    ELSE "Poor Conditions"

calculate_with_description(c) ==
    LET score == calculate_quality_score(c) IN
    <<score, get_quality_description(score)>>

NoQuality ==
    [called |-> FALSE, parts |-> <<0, 0, 0, 0, 0>>, uncapped |-> 0,
     score |-> 0, description |-> ""]

\* The caller gives one more field of its SnowConditions a value (a keyword
\* argument of the constructor); the fields not given stay None.  Whatever
\* an earlier call returned belongs to the old snapshot and is dropped.
SetCondition ==
    \E f \in Fields : \E v \in FieldInputs(f) :
        /\ IsNone(conditions[f])
        /\ conditions' = [conditions EXCEPT ![f] = Some(v)]
        /\ quality' = NoQuality
        /\ UNCHANGED <<fusion_vars, service_vars>>

\* One call of calculate_with_description(conditions): the five addends, the
\* running total, and the returned (score, description).
CalculateWithDescription ==
    /\ ~quality.called
    /\ LET r == calculate_with_description(conditions) IN
       quality' = [called |-> TRUE,
                   parts |-> SubScores(conditions),
                   uncapped |-> UncappedScore(conditions),
                   score |-> r[1],
                   description |-> r[2]]
    /\ UNCHANGED <<conditions, fusion_vars, service_vars>>

---------------------------------------------------------------------------
(* The floats of data_fusion.py: binary floating point with MantissaBits
   significant bits, every operation rounded to nearest, ties to even, as
   IEEE 754 does with 53 bits.  A float is the fraction
   <<numerator, denominator>> it stands for, denominator > 0, in lowest
   terms.  The exponent is not bounded: no overflow to inf, no underflow. *)

Abs(n) == IF n < 0 THEN -n ELSE n

RECURSIVE GCD(_, _)
GCD(a, b) == IF b = 0 THEN a ELSE GCD(b, a % b)

Frac(n, d) ==
    LET g == GCD(Abs(n), Abs(d))
        sgn == IF d < 0 THEN -1 ELSE 1
    IN <<sgn * (n \div g), sgn * (d \div g)>>

Zero == <<0, 1>>
One == <<1, 1>>
Whole(n) == <<n, 1>>

\* The exponent of the leading bit of a / d, for a, d > 0.
RECURSIVE Log2Floor(_, _)
Log2Floor(a, d) ==
    IF a < d THEN Log2Floor(2 * a, d) - 1
    ELSE IF a >= 2 * d THEN Log2Floor(a, 2 * d) + 1
    ELSE 0

\* The nearest integer to num / den, ties to the even one (num >= 0, den > 0).
RoundHalfEven(num, den) ==
    LET q == num \div den
        r == num % den
    IN IF 2 * r < den THEN q
       ELSE IF 2 * r > den THEN q + 1
       ELSE IF q % 2 = 0 THEN q ELSE q + 1

\* The float nearest to the real x: MantissaBits significant bits, ties to
\* even, no bound on the exponent.
Round(x) ==
    IF x[1] = 0 THEN Zero
    ELSE LET a == Abs(x[1])
             sgn == IF x[1] < 0 THEN -1 ELSE 1
             shift == Log2Floor(a, x[2]) - (MantissaBits - 1)
         IN IF shift >= 0
            THEN Frac(sgn * RoundHalfEven(a, x[2] * 2^shift) * 2^shift, 1)
            ELSE Frac(sgn * RoundHalfEven(a * 2^(-shift), x[2]), 2^(-shift))

Plus(a, b) == Round(<<a[1] * b[2] + b[1] * a[2], a[2] * b[2]>>)
Times(a, b) == Round(<<a[1] * b[1], a[2] * b[2]>>)
Over(a, b) ==
    IF b[1] < 0 THEN Round(<<-(a[1] * b[2]), -(a[2] * b[1])>>)
    ELSE Round(<<a[1] * b[2], a[2] * b[1]>>)
Less(a, b) == a[1] * b[2] < b[1] * a[2]
LessEq(a, b) == a[1] * b[2] <= b[1] * a[2]
MinFrac(a, b) == IF LessEq(a, b) THEN a ELSE b

RECURSIVE ExactPower(_, _)
ExactPower(r, n) ==
    IF n = 0 THEN One
    ELSE LET p == ExactPower(r, n - 1) IN Frac(r[1] * p[1], r[2] * p[2])

Power(r, n) == Round(ExactPower(r, n))

\* r ** n is out of the range of a float: Python raises OverflowError
\* where the other operations would return inf.
PowerOverflows(r, n) ==
    LET p == ExactPower(r, n) IN Abs(p[1]) >= 2^MaxExponent * p[2]

---------------------------------------------------------------------------
(* data_fusion.py *)

\* The dict SOURCE_WEIGHTS as the module defines it (lines 14-18).
SourceWeightsTable ==
    [resort_official |-> Round(<<1, 2>>),
     snotel |-> Round(<<2, 5>>),
     weather_api |-> Round(<<1, 10>>)]

\* SOURCE_WEIGHTS.get(source_name, 0.1)
SOURCE_WEIGHTS(source_name) ==
    IF source_name \in DOMAIN source_weights
    THEN source_weights[source_name]
    ELSE Round(<<1, 10>>)

\* A datetime at a whole hour: the wall-clock reading and the UTC offset of
\* its tzinfo in hours, None for a naive datetime.
DateTime(hour, utcoffset) == [hour |-> hour, utcoffset |-> utcoffset]
UTC == Some(0)

\* DataSource whose __post_init__ tests "not self.weight" instead of
\* "self.weight is None": a weight of 0.0 is replaced too.
data_source_falsy_weight(source_name, value, timestamp, confidence, weight) ==
    [source_name |-> source_name,
     value |-> value,
     timestamp |-> timestamp,
     confidence |-> confidence,
     weight |-> IF IsNone(weight) \/ weight = Some(Zero)
                THEN Some(SOURCE_WEIGHTS(source_name))
                ELSE weight]

\* DataSource(...) with __post_init__: a weight of None is replaced by the
\* table value of the source name.
DataSource(source_name, value, timestamp, confidence, weight) ==
    [source_name |-> source_name,
     value |-> value,
     timestamp |-> timestamp,
     confidence |-> confidence,
     weight |-> IF IsNone(weight) THEN Some(SOURCE_WEIGHTS(source_name))
                ELSE weight]

get_source_weight(source_name) == SOURCE_WEIGHTS(source_name)

\* The factory: the weight argument if one is given, else the table value.
create_data_source(source_name, value, timestamp, confidence, weight) ==
    DataSource(source_name, value, timestamp, confidence,
               IF ~IsNone(weight) THEN weight
               ELSE Some(get_source_weight(source_name)))

\* Instant that takes the wall-clock reading and ignores the UTC offset.
instant_ignores_offset(dt) == dt.hour

\* The instant of a datetime in hours UTC; tzinfo None is replaced by UTC.
Instant(dt) ==
    LET tz == IF IsNone(dt.utcoffset) THEN UTC ELSE dt.utcoffset
    IN dt.hour - Val(tz)

\* current_time is never None here: fuse_measurements resolves it first.
calculate_age_hours(timestamp, current_time) ==
    Instant(current_time) - Instant(timestamp)

\* calculate_age_factor with a factor that grows with the age.
age_factor_grows_with_age(age_hours, decay_rate) ==
    IF age_hours <= 0 THEN One ELSE Over(One, Power(decay_rate, age_hours))

\* calculate_age_factor without the guard for negative ages.
age_factor_without_future_guard(age_hours, decay_rate) ==
    IF age_hours < 0 THEN Over(One, Power(decay_rate, -age_hours))
    ELSE Power(decay_rate, age_hours)

\* calculate_age_factor with the decay already applied at age 0.
age_factor_decays_from_zero(age_hours, decay_rate) ==
    IF age_hours < 0 THEN One ELSE Power(decay_rate, age_hours + 1)

calculate_age_factor(age_hours, decay_rate) ==
    IF age_hours < 0 THEN One ELSE Power(decay_rate, age_hours)

\* The call calculate_age_factor(age_hours, decay_rate) raises.
calculate_age_factor_raises(age_hours, decay_rate) ==
    age_hours >= 0 /\ PowerOverflows(decay_rate, age_hours)

effective_weight_without_confidence(base_weight, confidence, age_factor) ==
    Times(base_weight, age_factor)

calculate_effective_weight(base_weight, confidence, age_factor) ==
    Times(Times(base_weight, confidence), age_factor)

\* The weight the loop reads for a source (lines 148-150).
LoopWeight(source) ==
    IF ~IsNone(source.weight) THEN Val(source.weight)
    ELSE SOURCE_WEIGHTS(source.source_name)

\* The loop body with an age filter that lets a source pass up to one hour
\* beyond max_age_hours.
loop_body_age_filter_lenient(acc, source, max_age_hours, current_time, decay_rate) ==
    LET weight == LoopWeight(source)
        base == Plus(acc.total_base_weight, weight)
        age_hours == calculate_age_hours(source.timestamp, current_time)
    IN
    IF age_hours > max_age_hours + 1
    THEN [acc EXCEPT !.total_base_weight = base]
    ELSE LET age_factor == calculate_age_factor(age_hours, decay_rate)
             effective_weight ==
                 calculate_effective_weight(weight, source.confidence,
                                            age_factor)
         IN [weighted_sum |->
                 Plus(acc.weighted_sum,
                      Times(Whole(source.value), effective_weight)),
             total_weight |-> Plus(acc.total_weight, effective_weight),
             sources_used |-> acc.sources_used + 1,
             total_base_weight |-> base]

\* The loop body with the value added to weighted_sum as it is.
loop_body_unweighted_sum(acc, source, max_age_hours, current_time, decay_rate) ==
    LET weight == LoopWeight(source)
        base == Plus(acc.total_base_weight, weight)
        age_hours == calculate_age_hours(source.timestamp, current_time)
    IN
    IF age_hours > max_age_hours
    THEN [acc EXCEPT !.total_base_weight = base]
    ELSE LET age_factor == calculate_age_factor(age_hours, decay_rate)
             effective_weight ==
                 calculate_effective_weight(weight, source.confidence,
                                            age_factor)
         IN [weighted_sum |-> Plus(acc.weighted_sum, Whole(source.value)),
             total_weight |-> Plus(acc.total_weight, effective_weight),
             sources_used |-> acc.sources_used + 1,
             total_base_weight |-> base]

\* The loop body with the age filter written >= instead of >.
loop_body_age_filter_inclusive(acc, source, max_age_hours, current_time, decay_rate) ==
    LET weight == LoopWeight(source)
        base == Plus(acc.total_base_weight, weight)
        age_hours == calculate_age_hours(source.timestamp, current_time)
    IN
    IF age_hours >= max_age_hours
    THEN [acc EXCEPT !.total_base_weight = base]
    ELSE LET age_factor == calculate_age_factor(age_hours, decay_rate)
             effective_weight ==
                 calculate_effective_weight(weight, source.confidence,
                                            age_factor)
         IN [weighted_sum |->
                 Plus(acc.weighted_sum,
                      Times(Whole(source.value), effective_weight)),
             total_weight |-> Plus(acc.total_weight, effective_weight),
             sources_used |-> acc.sources_used + 1,
             total_base_weight |-> base]

\* The loop body with the base weight added only after the age filter.
loop_body_base_weight_after_filter(acc, source, max_age_hours, current_time, decay_rate) ==
    LET weight == LoopWeight(source)
        age_hours == calculate_age_hours(source.timestamp, current_time)
    IN
    IF age_hours > max_age_hours
    THEN acc
    ELSE LET age_factor == calculate_age_factor(age_hours, decay_rate)
             effective_weight ==
                 calculate_effective_weight(weight, source.confidence,
                                            age_factor)
         IN [weighted_sum |->
                 Plus(acc.weighted_sum,
                      Times(Whole(source.value), effective_weight)),
             total_weight |-> Plus(acc.total_weight, effective_weight),
             sources_used |-> acc.sources_used + 1,
             total_base_weight |-> Plus(acc.total_base_weight, weight)]

\* One iteration of the for loop over the accumulators.
LoopBody(acc, source, max_age_hours, current_time, decay_rate) ==
    LET weight == LoopWeight(source)
        base == Plus(acc.total_base_weight, weight)
        age_hours == calculate_age_hours(source.timestamp, current_time)
    IN
    IF age_hours > max_age_hours
    THEN [acc EXCEPT !.total_base_weight = base]
    ELSE LET age_factor == calculate_age_factor(age_hours, decay_rate)
             effective_weight ==
                 calculate_effective_weight(weight, source.confidence,
                                            age_factor)
         IN [weighted_sum |->
                 Plus(acc.weighted_sum,
                      Times(Whole(source.value), effective_weight)),
             total_weight |-> Plus(acc.total_weight, effective_weight),
             sources_used |-> acc.sources_used + 1,
             total_base_weight |-> base]

\* The loop leaving at the first source that is too old.
RECURSIVE loop_stops_at_stale_source(_, _, _, _, _, _)
loop_stops_at_stale_source(acc, srcs, i, max_age_hours, current_time, decay_rate) ==
    IF i > Len(srcs) THEN acc
    ELSE IF calculate_age_hours(srcs[i].timestamp, current_time)
                > max_age_hours
    THEN acc
    ELSE loop_stops_at_stale_source(
             LoopBody(acc, srcs[i], max_age_hours, current_time, decay_rate),
             srcs, i + 1, max_age_hours, current_time, decay_rate)

RECURSIVE Loop(_, _, _, _, _, _)
Loop(acc, srcs, i, max_age_hours, current_time, decay_rate) ==
    IF i > Len(srcs) THEN acc
    ELSE Loop(LoopBody(acc, srcs[i], max_age_hours, current_time, decay_rate),
              srcs, i + 1, max_age_hours, current_time, decay_rate)

\* FusionResult with total_sources filled from the number of sources used.
fusion_result_total_is_used(best_estimate, confidence, sources_used, total_sources) ==
    [best_estimate |-> best_estimate,
     confidence |-> confidence,
     sources_used |-> sources_used,
     total_sources |-> sources_used]

FusionResult(best_estimate, confidence, sources_used, total_sources) ==
    [best_estimate |-> best_estimate,
     confidence |-> confidence,
     sources_used |-> sources_used,
     total_sources |-> total_sources]

\* Lines 141-144: the accumulators before the loop.
InitialAccumulators ==
    [weighted_sum |-> Zero, total_weight |-> Zero,
     sources_used |-> 0, total_base_weight |-> Zero]

\* Lines 169-184 with best_estimate divided by total_base_weight.
after_loop_divides_by_base_weight(acc, total_sources) ==
    IF acc.total_weight = Zero \/ acc.sources_used = 0 THEN None
    ELSE
    LET best_estimate == Over(acc.weighted_sum, acc.total_base_weight)
        confidence ==
            IF Less(Zero, acc.total_base_weight)
            THEN MinFrac(One, Over(acc.total_weight, acc.total_base_weight))
            ELSE Zero
    IN Some(FusionResult(best_estimate, confidence, acc.sources_used,
                         total_sources))

\* Lines 169-184: what is returned after the loop, total_sources being
\* len(sources) at that moment.
AfterLoop(acc, total_sources) ==
    IF acc.total_weight = Zero \/ acc.sources_used = 0 THEN None
    ELSE
    LET best_estimate == Over(acc.weighted_sum, acc.total_weight)
        confidence ==
            IF Less(Zero, acc.total_base_weight)
            THEN MinFrac(One, Over(acc.total_weight, acc.total_base_weight))
            ELSE Zero
    IN Some(FusionResult(best_estimate, confidence, acc.sources_used,
                         total_sources))

\* fuse_measurements with current_time given (or already read from the
\* clock): None, or Some(FusionResult).
fuse_measurements(srcs, max_age_hours, current_time, decay_rate) ==
    IF srcs = <<>> THEN None
    ELSE AfterLoop(Loop(InitialAccumulators, srcs, 1, max_age_hours,
                        current_time, decay_rate),
                   Len(srcs))

\* The call raises: the age factor of a source that passes the age filter
\* cannot be computed.  Nothing else in the function can raise: both
\* divisions are guarded.
fuse_measurements_raises(srcs, max_age_hours, current_time, decay_rate) ==
    \E i \in 1..Len(srcs) :
        LET age_hours == calculate_age_hours(srcs[i].timestamp, current_time)
        IN /\ ~(age_hours > max_age_hours)
           /\ calculate_age_factor_raises(age_hours, decay_rate)

\* Inputs of the model.
ValueInputs == {10, 12}
ConfidenceInputs == {Zero, One}
TimestampInputs == {DateTime(0, UTC), DateTime(1, None)}
\* (source_name, weight argument): a weight left to the table, and explicit
\* weights that are negative, zero and greater than 1.
WeightInputs ==
    {<<"resort_official", None>>, <<"snotel", Some(<<-1, 2>>)>>,
     <<"snotel", Some(Zero)>>, <<"weather_api", Some(<<2, 1>>)>>}
\* max_age_hours and decay_rate are arguments of the call.  With whole-hour
\* ages and a decay rate of 1/2 every age factor is a power of two.
MaxAgeInputs == {1}
DecayRateInputs == {<<1, 2>>}

\* Inputs of a caller that holds a single reading: every kind of source
\* name, a weight left out, zero or given, values that are negative or very
\* large, and timestamps that are aware (UTC or UTC+1) or naive.
SourceNameInputs == {"resort_official", "snotel", "weather_api", "unknown"}
OptionalWeightInputs == {None, Some(Zero), Some(<<3, 4>>)}
ReadingInputs == {-13, 13, 13 * 2^13}
ReadingTimestampInputs ==
    {DateTime(0, UTC), DateTime(1, None), DateTime(2, Some(1))}
ReadingConfidenceInputs == {Zero, <<1, 2>>, One}
\* A reading is fused with a maximum age of zero or of the whole run of the
\* clock, and with decay rates below, equal to and above 1.
ReadingMaxAgeInputs == {0, MaxClock}
ReadingDecayRateInputs == {<<1, 2>>, <<3, 4>>, One, <<2, 1>>}

\* Inputs of a caller that gathers several snotel readings of one quantity,
\* which differ in value, in age and in confidence.  (value, confidence):
\* a fully trusted reading of either value, or one that is hardly trusted.
MaxReadings == MaxSources + 1
GatheredInputs == {<<13, One>>, <<-13, One>>, <<-13, <<1, 64>>>>}

NoBuilt == [via |-> "", source_name |-> "", weight |-> None]

NoEarlier ==
    [called |-> FALSE, sources |-> <<>>, max_age_hours |-> 0,
     current_time |-> None, decay_rate |-> One, raised |-> "",
     result |-> None, again |-> FALSE, again_raised |-> "",
     again_result |-> None]

\* raised is the name of the exception the call ended with, "" if it
\* returned; result is the value it returned.
NoFusion ==
    [called |-> FALSE, max_age_hours |-> 0, decay_rate |-> One,
     raised |-> "", result |-> None]

\* The caller builds one more DataSource and appends it to its list.
AddSource ==
    \E nw \in WeightInputs, v \in ValueInputs, ts \in TimestampInputs,
       c \in ConfidenceInputs :
        /\ Len(sources) < MaxSources
        /\ sources' = Append(sources, DataSource(nw[1], v, ts, c, nw[2]))
        /\ built' = [via |-> "DataSource", source_name |-> nw[1],
                     weight |-> nw[2]]
        /\ fusion' = NoFusion
        /\ UNCHANGED <<source_weights, clock, earlier, threads,
                       scorer_vars, service_vars>>

\* The caller appends one more snotel reading, its weight left to the table.
AddReading ==
    \E vc \in GatheredInputs, ts \in TimestampInputs :
        /\ Len(sources) < MaxReadings
        /\ sources' =
               Append(sources, DataSource("snotel", vc[1], ts, vc[2], None))
        /\ built' = [via |-> "DataSource", source_name |-> "snotel",
                     weight |-> None]
        /\ fusion' = NoFusion
        /\ UNCHANGED <<source_weights, clock, earlier, threads,
                       scorer_vars, service_vars>>

\* The caller builds its single reading with the DataSource constructor.
NewDataSource ==
    \E name \in SourceNameInputs, v \in ReadingInputs,
       ts \in ReadingTimestampInputs, c \in ReadingConfidenceInputs,
       w \in OptionalWeightInputs :
        /\ sources = <<>>
        /\ sources' = <<DataSource(name, v, ts, c, w)>>
        /\ built' = [via |-> "DataSource", source_name |-> name, weight |-> w]
        /\ fusion' = NoFusion
        /\ UNCHANGED <<source_weights, clock, earlier, threads,
                       scorer_vars, service_vars>>

\* The caller builds its single reading with create_data_source.
CreateDataSource ==
    \E name \in SourceNameInputs, v \in ReadingInputs,
       ts \in ReadingTimestampInputs, c \in ReadingConfidenceInputs,
       w \in OptionalWeightInputs :
        /\ sources = <<>>
        /\ sources' = <<create_data_source(name, v, ts, c, w)>>
        /\ built' = [via |-> "create_data_source", source_name |-> name,
                     weight |-> w]
        /\ fusion' = NoFusion
        /\ UNCHANGED <<source_weights, clock, earlier, threads,
                       scorer_vars, service_vars>>

\* An hour passes.
Tick ==
    /\ clock < MaxClock
    /\ clock' = clock + 1
    /\ fusion' = NoFusion
    /\ UNCHANGED <<source_weights, built, sources, earlier, threads,
                   scorer_vars, service_vars>>

\* ResolveCurrentTime that reads the clock whatever the caller passes.
resolve_current_time_reads_clock(arg) == DateTime(clock, UTC)

\* Lines 138-139: a current_time of None is read from the clock, as an
\* aware UTC datetime.
ResolveCurrentTime(arg) ==
    IF IsNone(arg) THEN DateTime(clock, UTC) ELSE Val(arg)

\* How a call fuse_measurements(srcs, max_age_hours, current_time,
\* decay_rate) ends: the exception it raises, or the value it returns.
Outcome(srcs, max_age_hours, current_time, decay_rate) ==
    LET now == ResolveCurrentTime(current_time) IN
    IF fuse_measurements_raises(srcs, max_age_hours, now, decay_rate)
    THEN [raised |-> "OverflowError", result |-> None]
    ELSE [raised |-> "",
          result |-> fuse_measurements(srcs, max_age_hours, now, decay_rate)]

\* One call fuse_measurements(sources, max_age_hours, current_time,
\* decay_rate); current_time is None (the function reads the clock as an
\* aware UTC datetime) or the caller's reading of the clock, aware or naive.
FuseWith(MaxAges, DecayRates) ==
    \E max_age_hours \in MaxAges, decay_rate \in DecayRates,
       current_time \in {None, Some(DateTime(clock, UTC)),
                         Some(DateTime(clock, None))} :
        /\ ~fusion.called
        /\ LET out == Outcome(sources, max_age_hours, current_time,
                              decay_rate)
           IN fusion' = [called |-> TRUE,
                         max_age_hours |-> max_age_hours,
                         decay_rate |-> decay_rate,
                         raised |-> out.raised,
                         result |-> out.result]
        /\ UNCHANGED <<source_weights, built, sources, clock, earlier,
                       threads, scorer_vars, service_vars>>

Fuse == FuseWith(MaxAgeInputs, DecayRateInputs)

\* The same call by the caller of a single reading.
FuseReading == FuseWith(ReadingMaxAgeInputs, ReadingDecayRateInputs)

\* A call with an explicit reference time, any hour of the run, whose
\* arguments and outcome the caller keeps.
FuseFixed ==
    \E max_age_hours \in MaxAgeInputs, decay_rate \in DecayRateInputs,
       hour \in 0..MaxClock :
        /\ ~earlier.called
        /\ LET current_time == Some(DateTime(hour, UTC))
               out == Outcome(sources, max_age_hours, current_time,
                              decay_rate)
           IN earlier' = [called |-> TRUE,
                          sources |-> sources,
                          max_age_hours |-> max_age_hours,
                          current_time |-> current_time,
                          decay_rate |-> decay_rate,
                          raised |-> out.raised,
                          result |-> out.result,
                          again |-> FALSE,
                          again_raised |-> "",
                          again_result |-> None]
        /\ UNCHANGED <<source_weights, built, sources, clock, fusion,
                       threads, scorer_vars, service_vars>>

\* The caller repeats the kept call with identical arguments.
FuseAgain ==
    /\ earlier.called
    /\ ~earlier.again
    /\ sources = earlier.sources
    /\ LET out == Outcome(sources, earlier.max_age_hours,
                          earlier.current_time, earlier.decay_rate)
       IN earlier' = [earlier EXCEPT !.again = TRUE,
                                    !.again_raised = out.raised,
                                    !.again_result = out.result]
    /\ UNCHANGED <<source_weights, built, sources, clock, fusion, threads,
                   scorer_vars, service_vars>>

\* Two threads of one process call fuse_measurements at the same time on
\* the caller's list; each keeps its arguments and locals.
Threads == {"first", "second"}

IdleThread ==
    [pc |-> "idle", max_age_hours |-> 0, current_time |-> DateTime(0, UTC),
     decay_rate |-> One, i |-> 0, acc |-> InitialAccumulators,
     raised |-> "", result |-> None]

\* Lines 135-144: a thread enters fuse_measurements(sources, max_age_hours,
\* current_time, decay_rate) with the first or the last hour of the run as
\* reference time.
Begin(t) ==
    \E max_age_hours \in MaxAgeInputs, decay_rate \in DecayRateInputs,
       hour \in {0, MaxClock} :
        /\ threads[t].pc = "idle"
        /\ sources # <<>>
        /\ threads' =
               [threads EXCEPT ![t] =
                   [pc |-> "loop",
                    max_age_hours |-> max_age_hours,
                    current_time |->
                        ResolveCurrentTime(Some(DateTime(hour, UTC))),
                    decay_rate |-> decay_rate,
                    i |-> 1,
                    acc |-> InitialAccumulators,
                    raised |-> "",
                    result |-> None]]
        /\ UNCHANGED <<source_weights, built, sources, clock, fusion, earlier,
                       scorer_vars, service_vars>>

\* Lines 146-167 with a loop that drops a too-old reading from the caller's
\* list instead of skipping it.
iterate_removes_stale_source(t) ==
    LET self == threads[t]
        stale ==
            calculate_age_hours(sources[self.i].timestamp, self.current_time)
                > self.max_age_hours
    IN
    /\ self.pc = "loop"
    /\ self.i <= Len(sources)
    /\ threads' =
           [threads EXCEPT ![t] =
               [self EXCEPT !.i = IF stale THEN self.i ELSE self.i + 1,
                            !.acc = LoopBody(self.acc, sources[self.i],
                                             self.max_age_hours,
                                             self.current_time,
                                             self.decay_rate)]]
    /\ sources' =
           IF stale
           THEN SubSeq(sources, 1, self.i - 1)
                    \o SubSeq(sources, self.i + 1, Len(sources))
           ELSE sources
    /\ UNCHANGED <<source_weights, built, clock, fusion, earlier,
                   scorer_vars, service_vars>>

\* Lines 146-167: one iteration of the loop in thread t.
Iterate(t) ==
    LET self == threads[t] IN
    /\ self.pc = "loop"
    /\ self.i <= Len(sources)
    /\ threads' =
           [threads EXCEPT ![t] =
               IF fuse_measurements_raises(<<sources[self.i]>>,
                                           self.max_age_hours,
                                           self.current_time, self.decay_rate)
               THEN [self EXCEPT !.pc = "done", !.raised = "OverflowError"]
               ELSE [self EXCEPT !.i = self.i + 1,
                                 !.acc = LoopBody(self.acc, sources[self.i],
                                                  self.max_age_hours,
                                                  self.current_time,
                                                  self.decay_rate)]]
    /\ UNCHANGED <<source_weights, built, sources, clock, fusion, earlier,
                   scorer_vars, service_vars>>

\* Lines 169-184: the loop is over, thread t returns.
Return(t) ==
    LET self == threads[t] IN
    /\ self.pc = "loop"
    /\ self.i > Len(sources)
    /\ threads' =
           [threads EXCEPT ![t] =
               [self EXCEPT !.pc = "done",
                            !.result = AfterLoop(self.acc, Len(sources))]]
    /\ UNCHANGED <<source_weights, built, sources, clock, fusion, earlier,
                   scorer_vars, service_vars>>

FusionInit ==
    /\ source_weights = SourceWeightsTable
    /\ threads = [t \in Threads |-> IdleThread]
    /\ earlier = NoEarlier
    /\ built = NoBuilt
    /\ sources = <<>>
    /\ clock = 0
    /\ fusion = NoFusion

FusionNext == AddSource \/ Tick \/ Fuse

ReadingNext == NewDataSource \/ CreateDataSource \/ Tick \/ FuseReading

RepeatNext == NewDataSource \/ Tick \/ Fuse \/ FuseFixed \/ FuseAgain

GatheredNext == AddReading \/ Tick \/ Fuse

ParallelNext ==
    \/ NewDataSource
    \/ CalculateWithDescription
    \/ \E t \in Threads : Begin(t) \/ Iterate(t) \/ Return(t)

---------------------------------------------------------------------------
(* scrapers/base_scraper.py: BaseScraper.run.  The scraper_runs table is the
   sequence of the statuses of its rows, indexed by id; an id whose INSERT
   was rolled back has the status "".  Sessions are numbered as they are
   opened.  The exceptions of scrape and of the database are Exceptions. *)

\* How often one scraper object is run.
MaxRuns == 2

\* __init__ (lines 80-91): no session, no run id; nothing has run yet.
NoScraper ==
    [pc |-> "idle", db |-> None, run_id |-> None, opened |-> 0,
     closed |-> {}, rows |-> <<>>, saved |-> 0, runs |-> 0,
     trace |-> <<>>, end_run |-> <<>>, scraped |-> "", save_raised |-> FALSE,
     outcome |-> ""]

\* The status run passes to end_run from where it stands.
StatusOf(pc) ==
    CASE pc = "end_success" -> "success"
      [] pc = "end_no_data" -> "no_data"
      [] pc = "end_failure" -> "failure"

\* run() is called and calls start_run (lines 188-210): a session is opened
\* and kept in self.db; the INSERT and its commit succeed, or the INSERT
\* fails, or the commit fails after run_id was assigned; both failures are
\* logged and rolled back, and the session stays open.
StartRun ==
    \E recorded \in {"committed", "execute_fails", "commit_fails"} :
        /\ scraper.pc \in {"idle", "done"}
        /\ scraper.runs < MaxRuns
        /\ scraper' =
               [scraper EXCEPT
                   !.pc = "scrape",
                   !.runs = scraper.runs + 1,
                   !.opened = scraper.opened + 1,
                   !.db = Some(scraper.opened + 1),
                   !.rows = CASE recorded = "committed" ->
                                     Append(scraper.rows, "running")
                              [] recorded = "commit_fails" ->
                                     Append(scraper.rows, "")
                              [] OTHER -> scraper.rows,
                   !.run_id = IF recorded = "execute_fails"
                              THEN scraper.run_id
                              ELSE Some(Len(scraper.rows) + 1),
                   !.trace = <<"start_run">>,
                   !.end_run = <<>>,
                   !.scraped = "",
                   !.save_raised = FALSE,
                   !.outcome = ""]
        /\ UNCHANGED <<fetch, table, bulk, scorer_vars, fusion_vars>>

\* A run that saves whatever scrape returned, an empty dict too.
scrape_saves_empty_dict ==
    \E result \in {"data", "empty", "raise"} :
        /\ scraper.pc = "scrape"
        /\ scraper' =
               [scraper EXCEPT
                   !.scraped = result,
                   !.trace = Append(scraper.trace, "scrape"),
                   !.pc = IF result = "raise" THEN "end_failure" ELSE "save"]
        /\ UNCHANGED <<fetch, table, bulk, scorer_vars, fusion_vars>>

\* Lines 272-283: await self.scrape() returns data, returns an empty dict,
\* or raises.
Scrape ==
    \E result \in {"data", "empty", "raise"} :
        /\ scraper.pc = "scrape"
        /\ scraper' =
               [scraper EXCEPT
                   !.scraped = result,
                   !.trace = Append(scraper.trace, "scrape"),
                   !.pc = CASE result = "data" -> "save"
                            [] result = "empty" -> "end_no_data"
                            [] result = "raise" -> "end_failure"]
        /\ UNCHANGED <<fetch, table, bulk, scorer_vars, fusion_vars>>

\* save_conditions (lines 292-359): a session is opened if there is none;
\* the INSERT is committed, or it fails, is rolled back and raised again.
SaveConditions ==
    \E inserted \in BOOLEAN :
        /\ scraper.pc = "save"
        /\ scraper' =
               [scraper EXCEPT
                   !.trace = Append(scraper.trace, "save_conditions"),
                   !.opened = IF IsNone(scraper.db) THEN scraper.opened + 1
                              ELSE scraper.opened,
                   !.db = IF IsNone(scraper.db) THEN Some(scraper.opened + 1)
                          ELSE scraper.db,
                   !.saved = IF inserted THEN scraper.saved + 1
                             ELSE scraper.saved,
                   !.save_raised = ~inserted,
                   !.pc = IF inserted THEN "end_success" ELSE "end_failure"]
        /\ UNCHANGED <<fetch, table, bulk, scorer_vars, fusion_vars>>

\* end_run (lines 212-254) and the end of run (lines 276-290): without a
\* session or without a run id end_run returns at once; otherwise the UPDATE
\* is committed or fails and is rolled back, and the session is closed and
\* self.db set to None.  run then returns data or {}, or raises again.
EndRun ==
    \E updated \in BOOLEAN :
        /\ scraper.pc \in {"end_success", "end_no_data", "end_failure"}
        /\ LET status == StatusOf(scraper.pc)
               skipped == IsNone(scraper.db) \/ IsNone(scraper.run_id)
               id == Val(scraper.run_id)
           IN scraper' =
                  [scraper EXCEPT
                      !.trace = Append(scraper.trace, "end_run"),
                      !.end_run = Append(scraper.end_run, status),
                      !.rows = IF ~skipped /\ updated
                                  /\ scraper.rows[id] # ""
                               THEN [scraper.rows EXCEPT ![id] = status]
                               ELSE scraper.rows,
                      !.closed = IF skipped THEN scraper.closed
                                 ELSE scraper.closed \cup {Val(scraper.db)},
                      !.db = IF skipped THEN scraper.db ELSE None,
                      !.outcome = CASE status = "success" -> "data"
                                    [] status = "no_data" -> "empty"
                                    [] status = "failure" -> "raised",
                      !.pc = "done"]
        /\ UNCHANGED <<fetch, table, bulk, scorer_vars, fusion_vars>>

RunNext == StartRun \/ Scrape \/ SaveConditions \/ EndRun

---------------------------------------------------------------------------
(* scrapers/base_scraper.py: BaseScraper._fetch_url under its tenacity
   decorator *)

\* stop_after_attempt(3)
StopAfterAttempt == 3

\* The pool get_random_user_agent chooses from (lines 34-51).
USER_AGENTS ==
    {"Chrome Windows", "Chrome macOS", "Firefox Windows", "Firefox macOS",
     "Safari macOS", "Edge Windows", "Chrome Linux", "Firefox Linux"}

\* retry_if_exception_type((httpx.HTTPError, httpx.TimeoutException)); the
\* HTTPStatusError of raise_for_status is an HTTPError.
Retried == {"HTTPError", "TimeoutException"}

\* How one attempt ends: with a response, or with an exception.
AttemptOutcomes == {"response"} \cup Retried \cup {"InvalidURL"}

NoFetch ==
    [pc |-> "idle", attempts |-> <<>>, clients |-> 0, user_agents |-> <<>>,
     result |-> ""]

\* A call of _fetch_url(url) begins.
FetchUrl ==
    /\ fetch.pc \in {"idle", "returned", "raised"}
    /\ fetch' = [NoFetch EXCEPT !.pc = "attempt"]
    /\ UNCHANGED <<scraper, table, bulk, scorer_vars, fusion_vars>>

\* A decorator that stops one attempt later.
attempt_stops_after_fourth ==
    \E user_agent \in USER_AGENTS, outcome \in AttemptOutcomes :
        /\ fetch.pc = "attempt"
        /\ LET stop == Len(fetch.attempts) >= StopAfterAttempt
               again == outcome \in Retried /\ ~stop
           IN fetch' =
                  [pc |-> IF outcome = "response" THEN "returned"
                          ELSE IF again THEN "attempt" ELSE "raised",
                   attempts |-> Append(fetch.attempts, outcome),
                   clients |-> fetch.clients + 1,
                   user_agents |-> Append(fetch.user_agents, user_agent),
                   result |-> IF again THEN "" ELSE outcome]
        /\ UNCHANGED <<scraper, table, bulk, scorer_vars, fusion_vars>>

\* One attempt (lines 147-151): a client is created with the headers of
\* _get_headers, whose User-Agent is chosen at random; the request returns a
\* response or raises.  tenacity returns the response, lets an exception it
\* does not retry through, raises the exception of the last attempt again
\* (reraise=True), or waits and has another attempt made.
Attempt ==
    \E user_agent \in USER_AGENTS, outcome \in AttemptOutcomes :
        /\ fetch.pc = "attempt"
        /\ LET stop == Len(fetch.attempts) + 1 >= StopAfterAttempt
               again == outcome \in Retried /\ ~stop
           IN fetch' =
                  [pc |-> IF outcome = "response" THEN "returned"
                          ELSE IF again THEN "attempt" ELSE "raised",
                   attempts |-> Append(fetch.attempts, outcome),
                   clients |-> fetch.clients + 1,
                   user_agents |-> Append(fetch.user_agents, user_agent),
                   result |-> IF again THEN "" ELSE outcome]
        /\ UNCHANGED <<scraper, table, bulk, scorer_vars, fusion_vars>>

FetchNext == FetchUrl \/ Attempt

---------------------------------------------------------------------------
(* routers/conditions.py: create_conditions_bulk.  `table` is the conditions
   table, a set of rows whose primary key is (time, resort_id).  Times are
   whole days.  An entry's time is given: the schema fills in a missing one
   before the handler runs. *)

\* The most entries one request may have (line 407).
MaxBulk == 100

\* The ids in the resorts table.
Resorts == {1}

\* One ConditionCreate: the fields the handler reads.  `aware` says whether
\* the time came with a UTC offset.
Entry(resort_id, time, aware, new_snow_24h_in) ==
    [resort_id |-> resort_id, time |-> time, aware |-> aware,
     new_snow_24h_in |-> new_snow_24h_in, temperature_f |-> None,
     wind_speed_mph |-> None, humidity_percent |-> None]

\* Entries for the resort, with less and with more than an inch of new
\* snow and without a reading, and one for a resort that does not exist.
EntryInputs ==
    {Entry(1, t, a, s) :
        t \in {0, 1}, a \in BOOLEAN, s \in {Some(Scale - 1), Some(6 * Scale)}}
    \cup {Entry(1, 1, FALSE, None), Entry(99, 0, FALSE, None)}

\* The request bodies: short lists, and lists of MaxBulk and of MaxBulk + 1
\* entries for a resort, one per day.
BulkInputs ==
    {<<>>}
    \cup {<<e>> : e \in EntryInputs}
    \cup {<<e, f>> : e \in EntryInputs, f \in EntryInputs}
    \cup {[i \in 1..n |-> Entry(r, i - 1, FALSE, Some(6 * Scale))] :
             n \in {MaxBulk, MaxBulk + 1}, r \in {1, 99}}

\* What a query of the session sees of a row or of a flushed entry.
Stored(r) ==
    [time |-> r.time, resort_id |-> r.resort_id,
     new_snow_24h_in |-> r.new_snow_24h_in]

\* The rows with at least an inch of new snow and a time up to current_time
\* (the filter of lines 57-61).
SnowRows(rows, resort_id, current_time) ==
    {row \in rows :
        /\ row.resort_id = resort_id
        /\ ~IsNone(row.new_snow_24h_in)
        /\ Val(row.new_snow_24h_in) >= 1 * Scale
        /\ row.time <= current_time}

\* The latest time among rows.
LatestTime(rows) ==
    CHOOSE t \in {row.time : row \in rows} : \A row \in rows : row.time <= t

\* _calculate_days_since_snow (lines 42-73): None if no row has new snow;
\* else current_time - last_snow.time.replace(tzinfo=None), which raises
\* TypeError when current_time is aware, and whose days are returned.
_calculate_days_since_snow(rows, e) ==
    LET snow == SnowRows(rows, e.resort_id, e.time) IN
    IF snow = {} THEN [raised |-> "", days |-> None]
    ELSE IF e.aware THEN [raised |-> "TypeError", days |-> None]
    ELSE [raised |-> "", days |-> Some(e.time - LatestTime(snow))]

\* _calculate_snow_quality (lines 76-120), given the days since snow.
_calculate_snow_quality(e, days_since_snow) ==
    calculate_with_description(
        [SnowConditions EXCEPT
            !["new_snow_24h_in"] = e.new_snow_24h_in,
            !["temperature_f"] = e.temperature_f,
            !["wind_speed_mph"] = e.wind_speed_mph,
            !["humidity_percent"] = e.humidity_percent,
            !["days_since_snow"] = days_since_snow])

\* Condition(**data): the row of an entry.  The score is a whole number,
\* which round(quality_score, 2) and Decimal(str(...)) leave as it is.
Condition(e, quality_score) ==
    [time |-> e.time, resort_id |-> e.resort_id,
     new_snow_24h_in |-> e.new_snow_24h_in,
     snow_quality_score |-> quality_score]

\* db.flush() of a new row fails when its primary key is in the table or
\* among the rows flushed before it.
KeyTaken(rows, e) ==
    \E row \in rows : row.time = e.time /\ row.resort_id = e.resort_id

\* The loop of lines 434-455: entry i sees the table and the entries
\* flushed before it; the loop ends at the first entry whose days or whose
\* flush raise.  The status of the response and the rows at the end.
BulkLoop(rows, entries) ==
    LET Visible(i) ==
            {Stored(row) : row \in rows}
            \cup {Stored(entries[j]) : j \in 1..(i - 1)}
        Days(i) == _calculate_days_since_snow(Visible(i), entries[i])
        Raises(i) ==
            Days(i).raised # "" \/ KeyTaken(Visible(i), entries[i])
        Row(i) ==
            Condition(entries[i],
                      _calculate_snow_quality(entries[i], Days(i).days)[1])
    IN IF \E i \in 1..Len(entries) : Raises(i)
       THEN [status |-> 500, rows |-> rows]
       ELSE [status |-> 201,
             rows |-> rows \cup {Row(i) : i \in 1..Len(entries)}]

\* One request to POST /conditions/bulk (lines 388-462): the three checks
\* answer 400; an exception of the loop is answered 500 by the handlers of
\* main.py and the session is closed without a commit; otherwise the rows
\* are committed and the answer is 201.
CreateConditionsBulk ==
    \E entries \in BulkInputs :
        LET missing_ids ==
                {entries[i].resort_id : i \in 1..Len(entries)} \ Resorts
            status ==
                IF entries = <<>> THEN 400
                ELSE IF Len(entries) > MaxBulk THEN 400
                ELSE IF missing_ids # {} THEN 400
                ELSE BulkLoop(table, entries).status
        IN /\ table' = IF status = 201
                       THEN BulkLoop(table, entries).rows
                       ELSE table
           /\ bulk' = [called |-> TRUE, conditions |-> entries,
                       status |-> status, before |-> table]
           /\ UNCHANGED <<scraper, fetch, scorer_vars, fusion_vars>>

BulkNext == CreateConditionsBulk

---------------------------------------------------------------------------
(* Specifications *)

ScorerInit ==
    /\ conditions = SnowConditions
    /\ quality = NoQuality

ScorerNext == SetCondition \/ CalculateWithDescription

ServiceInit ==
    /\ scraper = NoScraper
    /\ fetch = NoFetch
    /\ table = {}
    /\ bulk = [called |-> FALSE]

Init == ScorerInit /\ FusionInit /\ ServiceInit

Next ==
    \/ ScorerNext
    \/ FusionNext
    \/ ReadingNext
    \/ RepeatNext
    \/ ParallelNext
    \/ GatheredNext
    \/ RunNext
    \/ FetchNext
    \/ BulkNext

Spec == Init /\ [][Next]_vars

\* A caller that only uses the quality scorer.
SpecScorer == Init /\ [][ScorerNext]_vars

\* A caller that only uses the fusion engine.
SpecFusion == Init /\ [][FusionNext]_vars

\* A caller that fuses a single reading.
SpecReading == Init /\ [][ReadingNext]_vars

\* A caller that repeats an earlier call on its single reading.
SpecRepeat == Init /\ [][RepeatNext]_vars

\* A caller that gathers up to MaxReadings snotel readings and fuses them.
SpecGathered == Init /\ [][GatheredNext]_vars

\* A scraper object that is run up to MaxRuns times.
SpecRun == Init /\ [][RunNext]_vars

\* Calls of _fetch_url, one after the other.
SpecFetch == Init /\ [][FetchNext]_vars

\* Requests to POST /conditions/bulk, one after the other.
SpecBulk == Init /\ [][BulkNext]_vars

\* A process that scores a snapshot and fuses its single reading in two
\* threads at once.
SpecParallel == Init /\ [][ParallelNext]_vars

---------------------------------------------------------------------------
(* Claims about the quality scorer, checked under SpecScorer *)

Present(f) == ~IsNone(conditions[f])

\* C1: for every SnowConditions value (each field absent or holding any
\* number, negative or absurdly large ones included) the score returned by
\* calculate_quality_score lies in [0, 100].
C1_ScoreInRange ==
    quality.called => (0 <= quality.score /\ quality.score <= 100)

C1_Witness ==
    /\ quality.called
    /\ conditions["new_snow_24h_in"] = Some(Huge)
    /\ conditions["temperature_f"] = Some(-Huge)
    /\ conditions["wind_speed_mph"] = Some(-1)
    /\ IsNone(conditions["days_since_snow"])
    /\ conditions["humidity_percent"] = Some(101 * Scale)

\* The sub-score of one present field, by the function the scorer uses for it.
FieldScore(f, v) ==
    CASE f = "new_snow_24h_in" -> calculate_new_snow_score(Some(v))
      [] f = "temperature_f" -> calculate_temperature_score(Some(v))
      [] f = "wind_speed_mph" -> calculate_wind_score(Some(v))
      [] f = "days_since_snow" -> calculate_snow_age_score(Some(v))
      [] f = "humidity_percent" -> calculate_humidity_score(Some(v))

RECURSIVE SumOver(_, _)
SumOver(S, c) ==
    IF S = {} THEN 0
    ELSE LET f == CHOOSE x \in S : TRUE IN
         FieldScore(f, Val(c[f])) + SumOver(S \ {f}, c)

FieldIndex(f) ==
    CASE f = "new_snow_24h_in" -> 1
      [] f = "temperature_f" -> 2
      [] f = "wind_speed_mph" -> 3
      [] f = "days_since_snow" -> 4
      [] f = "humidity_percent" -> 5

\* C7: an absent field contributes exactly 0 points; the score is the sum of
\* the sub-scores of the present fields only; the all-absent snapshot scores
\* (0, "Poor Conditions"); giving an absent field any value never lowers
\* the score.
C7_AbsentContributesZero ==
    quality.called =>
        /\ \A f \in Fields :
               IsNone(conditions[f]) => quality.parts[FieldIndex(f)] = 0
        /\ quality.score = SumOver({f \in Fields : Present(f)}, conditions)
        /\ (\A f \in Fields : IsNone(conditions[f])) =>
               (quality.score = 0 /\ quality.description = "Poor Conditions")
        /\ \A f \in Fields : IsNone(conditions[f]) =>
               \A v \in FieldInputs(f) :
                   calculate_quality_score(
                       [conditions EXCEPT ![f] = Some(v)]) >= quality.score

C7_Witness ==
    /\ quality.called
    /\ conditions["new_snow_24h_in"] = Some(6 * Scale)
    /\ conditions["temperature_f"] = Some(28 * Scale)
    /\ IsNone(conditions["wind_speed_mph"])
    /\ IsNone(conditions["days_since_snow"])
    /\ conditions["humidity_percent"] = Some(50 * Scale - 1)
    /\ quality.score = 58

\* Every factor is in the bucket that earns its maximum.
AllTopBucket ==
    /\ Present("new_snow_24h_in")
    /\ Val(conditions["new_snow_24h_in"]) >= 12 * Scale
    /\ Present("temperature_f")
    /\ Val(conditions["temperature_f"]) >= 15 * Scale
    /\ Val(conditions["temperature_f"]) <= 28 * Scale
    /\ Present("wind_speed_mph")
    /\ Val(conditions["wind_speed_mph"]) >= 0
    /\ Val(conditions["wind_speed_mph"]) < 10 * Scale
    /\ Present("days_since_snow")
    /\ Val(conditions["days_since_snow"]) = 0
    /\ Present("humidity_percent")
    /\ Val(conditions["humidity_percent"]) >= 0
    /\ Val(conditions["humidity_percent"]) < 30 * Scale

\* C8: the five sub-scores sum to at most 100, so the cap never changes the
\* value and the returned score is the un-capped sum; the score is 100
\* exactly when every factor is in its top bucket.
C8_CapNeverBinds ==
    quality.called =>
        /\ quality.parts[1] + quality.parts[2] + quality.parts[3]
             + quality.parts[4] + quality.parts[5] = quality.uncapped
        /\ quality.uncapped <= 100
        /\ quality.score = quality.uncapped
        /\ (quality.score = 100) <=> AllTopBucket

C8_Witness ==
    /\ quality.called
    /\ AllTopBucket
    /\ conditions["new_snow_24h_in"] = Some(Huge)
    /\ quality.score = 100

\* The table of the new-snow factor, by interval.
NewSnowTable(x) ==
    CASE x <= 0 -> 0
      [] 0 < x /\ x < 1 * Scale -> 10
      [] 1 * Scale <= x /\ x < 3 * Scale -> 15
      [] 3 * Scale <= x /\ x < 6 * Scale -> 20
      [] 6 * Scale <= x /\ x < 12 * Scale -> 25
      [] x >= 12 * Scale -> 30

\* C9: calculate_new_snow_score is a non-decreasing step function: 0 for
\* amounts <= 0, 10 on (0,1), 15 on [1,3), 20 on [3,6), 25 on [6,12), 30
\* from 12 on; each breakpoint 1, 3, 6, 12 belongs to the higher bucket.
C9_NewSnowSteps ==
    (quality.called /\ Present("new_snow_24h_in")) =>
        LET x == Val(conditions["new_snow_24h_in"]) IN
        /\ quality.parts[1] = NewSnowTable(x)
        /\ \A y \in NewSnowInputs :
               y <= x => calculate_new_snow_score(Some(y)) <= quality.parts[1]
        /\ x = 1 * Scale => quality.parts[1] = 15
        /\ x = 3 * Scale => quality.parts[1] = 20
        /\ x = 6 * Scale => quality.parts[1] = 25
        /\ x = 12 * Scale => quality.parts[1] = 30

C9_Witness ==
    /\ quality.called
    /\ conditions["new_snow_24h_in"] = Some(12 * Scale)
    /\ quality.parts[1] = 30

\* The bands of the temperature factor that hold t, widest last.
TemperatureBands(t) ==
    {b \in {"ideal", "good", "acceptable", "cold", "warm"} :
        CASE b = "ideal" -> 15 * Scale <= t /\ t <= 28 * Scale
          [] b = "good" -> /\ 10 * Scale <= t /\ t <= 32 * Scale
                           /\ ~(15 * Scale <= t /\ t <= 28 * Scale)
          [] b = "acceptable" -> /\ 5 * Scale <= t /\ t <= 35 * Scale
                                 /\ ~(10 * Scale <= t /\ t <= 32 * Scale)
          [] b = "cold" -> t < 5 * Scale
          [] b = "warm" -> t > 35 * Scale}

BandPoints(b) ==
    CASE b = "ideal" -> 25
      [] b = "good" -> 20
      [] b = "acceptable" -> 15
      [] b = "cold" -> 10
      [] b = "warm" -> 5

\* C10: every present temperature falls in exactly one of five nested
\* bands: [15,28] gives 25; otherwise [10,32] gives 20; otherwise [5,35]
\* gives 15; below 5 gives 10; above 35 gives 5.  Both ends of the closed
\* bands are inclusive and no present temperature scores 0.
C10_TemperatureBands ==
    (quality.called /\ Present("temperature_f")) =>
        LET t == Val(conditions["temperature_f"]) IN
        /\ Cardinality(TemperatureBands(t)) = 1
        /\ \A b \in TemperatureBands(t) : quality.parts[2] = BandPoints(b)
        /\ t \in {15 * Scale, 28 * Scale} => quality.parts[2] = 25
        /\ t \in {10 * Scale, 32 * Scale} => quality.parts[2] = 20
        /\ t \in {5 * Scale, 35 * Scale} => quality.parts[2] = 15
        /\ quality.parts[2] # 0

C10_Witness ==
    /\ quality.called
    /\ conditions["temperature_f"] = Some(35 * Scale)
    /\ quality.parts[2] = 15

\* The tables of the wind, snow-age and humidity factors, by interval.
WindTable(w) ==
    CASE w < 0 -> 0
      [] 0 <= w /\ w < 10 * Scale -> 15
      [] 10 * Scale <= w /\ w < 20 * Scale -> 10
      [] 20 * Scale <= w /\ w < 30 * Scale -> 5
      [] w >= 30 * Scale -> 0

SnowAgeTable(d) ==
    CASE d < 0 -> 0
      [] d = 0 -> 20
      [] d = 1 -> 15
      [] d \in 2..3 -> 10
      [] d \in 4..7 -> 5
      [] d >= 8 -> 0

HumidityTable(h) ==
    CASE h < 0 -> 0
      [] 0 <= h /\ h < 30 * Scale -> 10
      [] 30 * Scale <= h /\ h < 50 * Scale -> 8
      [] 50 * Scale <= h /\ h < 70 * Scale -> 5
      [] h >= 70 * Scale -> 2

\* C11: the wind, snow-age and humidity sub-scores follow their tables.
\* Each is 0 for a negative input and non-increasing over non-negative
\* inputs.  Wind: [0,10) 15, [10,20) 10, [20,30) 5, from 30 on 0.  Days
\* since snow: 0 gives 20, 1 gives 15, 2..3 gives 10, 4..7 gives 5, from 8
\* on 0.  Humidity: [0,30) 10, [30,50) 8, [50,70) 5, from 70 on 2, also
\* above 100.
C11_WindAgeHumidityTables ==
    quality.called =>
        /\ Present("wind_speed_mph") =>
               LET w == Val(conditions["wind_speed_mph"]) IN
               /\ quality.parts[3] = WindTable(w)
               /\ w < 0 => quality.parts[3] = 0
               /\ \A y \in WindInputs :
                      (0 <= y /\ y <= w) =>
                          calculate_wind_score(Some(y)) >= quality.parts[3]
        /\ Present("days_since_snow") =>
               LET d == Val(conditions["days_since_snow"]) IN
               /\ quality.parts[4] = SnowAgeTable(d)
               /\ d < 0 => quality.parts[4] = 0
               /\ \A y \in SnowAgeInputs :
                      (0 <= y /\ y <= d) =>
                          calculate_snow_age_score(Some(y)) >= quality.parts[4]
        /\ Present("humidity_percent") =>
               LET h == Val(conditions["humidity_percent"]) IN
               /\ quality.parts[5] = HumidityTable(h)
               /\ h < 0 => quality.parts[5] = 0
               /\ h > 100 * Scale => quality.parts[5] = 2
               /\ \A y \in HumidityInputs :
                      (0 <= y /\ y <= h) =>
                          calculate_humidity_score(Some(y)) >= quality.parts[5]

C11_Witness ==
    /\ quality.called
    /\ conditions["wind_speed_mph"] = Some(10 * Scale)
    /\ conditions["days_since_snow"] = Some(4)
    /\ conditions["humidity_percent"] = Some(101 * Scale)
    /\ quality.parts[3] = 10
    /\ quality.parts[4] = 5
    /\ quality.parts[5] = 2

\* The seven tiers and the scores each one covers.
Tiers ==
    {"Epic Powder Day!", "Excellent Conditions", "Great Day to Ski",
     "Good Conditions", "Decent Skiing", "Fair Conditions",
     "Poor Conditions"}

TierCovers(tier, score) ==
    CASE tier = "Epic Powder Day!" -> score >= 90
      [] tier = "Excellent Conditions" -> 80 <= score /\ score < 90
      [] tier = "Great Day to Ski" -> 70 <= score /\ score < 80
      [] tier = "Good Conditions" -> 60 <= score /\ score < 70
      [] tier = "Decent Skiing" -> 50 <= score /\ score < 60
      [] tier = "Fair Conditions" -> 40 <= score /\ score < 50
      [] tier = "Poor Conditions" -> score < 40

\* C12: get_quality_description maps a score to exactly one of seven tiers,
\* the one of the first threshold the score meets, highest first (90, 80,
\* 70, 60, 50, 40, else Poor Conditions); calculate_with_description
\* returns (score, tier) where score is the quality score of the snapshot
\* and tier is that mapping applied to the score it returns.
C12_DescriptionTiers ==
    quality.called =>
        /\ quality.score = calculate_quality_score(conditions)
        /\ quality.description \in Tiers
        /\ TierCovers(quality.description, quality.score)
        /\ \A s \in {quality.score - 1, quality.score + 1, -1, 101} :
               LET tier == get_quality_description(s) IN
               /\ tier \in Tiers
               /\ {t \in Tiers : TierCovers(t, s)} = {tier}

C12_Witness ==
    /\ quality.called
    /\ quality.score = 90
    /\ quality.description = "Epic Powder Day!"
    /\ get_quality_description(quality.score - 1) = "Excellent Conditions"

---------------------------------------------------------------------------
(* Claims about the fusion engine, checked under SpecFusion *)

\* The reference time of the last call: the clock, whichever way it was
\* passed.
Now == DateTime(clock, UTC)

AgeOf(s) == calculate_age_hours(s.timestamp, Now)

\* Indices of the sources that pass the age filter of the last call.
Survivors(srcs) ==
    {i \in 1..Len(srcs) : AgeOf(srcs[i]) <= fusion.max_age_hours}

\* w_i = weight_i * confidence_i * age_factor_i
EffectiveWeightOf(s) ==
    Times(Times(Val(s.weight), s.confidence),
          calculate_age_factor(AgeOf(s), fusion.decay_rate))

RECURSIVE SumEffective(_, _)
SumEffective(I, srcs) ==
    IF I = {} THEN Zero
    ELSE LET i == CHOOSE x \in I : \A y \in I : y <= x IN
         Plus(SumEffective(I \ {i}, srcs), EffectiveWeightOf(srcs[i]))

RECURSIVE SumWeightedValues(_, _)
SumWeightedValues(I, srcs) ==
    IF I = {} THEN Zero
    ELSE LET i == CHOOSE x \in I : \A y \in I : y <= x IN
         Plus(SumWeightedValues(I \ {i}, srcs),
              Times(Whole(srcs[i].value), EffectiveWeightOf(srcs[i])))

RECURSIVE SumValues(_, _)
SumValues(I, srcs) ==
    IF I = {} THEN 0
    ELSE LET i == CHOOSE x \in I : TRUE IN
         srcs[i].value + SumValues(I \ {i}, srcs)

Returned == fusion.called /\ ~IsNone(fusion.result)

SomeContributor ==
    \E i \in Survivors(sources) : EffectiveWeightOf(sources[i]) # Zero

C4_ConfidenceInUnitInterval ==
    Returned =>
        /\ LessEq(Zero, Val(fusion.result).confidence)
        /\ LessEq(Val(fusion.result).confidence, One)

\* The list without its last source, and what the same call returns on it.
Front(srcs) == SubSeq(srcs, 1, Len(srcs) - 1)
Last(srcs) == srcs[Len(srcs)]
ResultWithoutLast ==
    fuse_measurements(Front(sources), fusion.max_age_hours, Now,
                      fusion.decay_rate)

\* The last source of the list is older than max_age_hours and has a
\* positive weight, and the list without it fuses to a result.
StaleSourceAdded ==
    /\ fusion.called
    /\ Len(sources) >= 2
    /\ AgeOf(Last(sources)) > fusion.max_age_hours
    /\ Less(Zero, Val(Last(sources).weight))
    /\ ~IsNone(ResultWithoutLast)

StaleSourceFrame ==
    /\ ~IsNone(fusion.result)
    /\ Val(fusion.result).best_estimate = Val(ResultWithoutLast).best_estimate
    /\ Val(fusion.result).sources_used = Val(ResultWithoutLast).sources_used
    /\ Val(fusion.result).total_sources =
           Val(ResultWithoutLast).total_sources + 1

ConfidenceLowered ==
    Less(Val(fusion.result).confidence, Val(ResultWithoutLast).confidence)

\* C5 as stated: adding one source older than max_age_hours, with positive
\* weight, leaves best_estimate and sources_used unchanged, raises
\* total_sources by one, and lowers the returned confidence.
C5_StaleSourceLowersConfidence ==
    StaleSourceAdded => (StaleSourceFrame /\ ConfidenceLowered)

\* C5 as amended: adding one source older than max_age_hours, with positive
\* weight, leaves best_estimate and sources_used unchanged and raises
\* total_sources by one; it lowers the returned confidence when no other
\* source of the list has a negative weight or a confidence outside [0,1].
C5_StaleSourceNonNegativeWeights ==
    StaleSourceAdded =>
        /\ StaleSourceFrame
        /\ (\A i \in 1..(Len(sources) - 1) :
                /\ LessEq(Zero, Val(sources[i].weight))
                /\ LessEq(Zero, sources[i].confidence)
                /\ LessEq(sources[i].confidence, One))
               => ConfidenceLowered

C5_Witness ==
    /\ StaleSourceAdded
    /\ Val(sources[1].weight) = <<1, 2>>
    /\ Val(ResultWithoutLast).confidence = <<1, 2>>
    /\ Val(fusion.result).confidence = Over(<<1, 4>>, <<5, 2>>)

\* C6: sources_used is the number of sources that contributed to the
\* estimate: a source excluded by the age filter, or one whose effective
\* weight is zero, is not counted.
C6_SourcesUsedCountsContributors ==
    Returned =>
        Val(fusion.result).sources_used =
            Cardinality({i \in Survivors(sources) :
                            EffectiveWeightOf(sources[i]) # Zero})

\* C14: in every FusionResult, total_sources is the length of the input
\* list, sources excluded by the age filter included, and
\* 0 < sources_used <= total_sources.
C14_SourceCounts ==
    Returned =>
        LET r == Val(fusion.result) IN
        /\ r.total_sources = Len(sources)
        /\ 0 < r.sources_used
        /\ r.sources_used <= r.total_sources

\* One of two sources is excluded by the age filter.
C14_Witness ==
    /\ Returned
    /\ Len(sources) = 2
    /\ Cardinality(Survivors(sources)) = 1
    /\ Val(fusion.result).total_sources = 2
    /\ Val(fusion.result).sources_used = 1

---------------------------------------------------------------------------
(* Claims about a single reading, checked under SpecReading *)

\* The list holds exactly one source, with confidence 1.0, a timestamp equal
\* to the reference time and a positive weight, and has been fused.
SingleFreshSource ==
    /\ fusion.called
    /\ Len(sources) = 1
    /\ sources[1].confidence = One
    /\ AgeOf(sources[1]) = 0
    /\ Less(Zero, Val(sources[1].weight))

\* C13 as stated: for a list holding exactly one source with confidence
\* 1.0, age 0 and a positive weight, fuse_measurements returns
\* best_estimate equal to that source's value (also for negative or very
\* large values), confidence equal to 1.0, and sources_used = 1.
C13_SingleSourceIdentity ==
    SingleFreshSource =>
        /\ Returned
        /\ Val(fusion.result).best_estimate = Whole(sources[1].value)
        /\ Val(fusion.result).confidence = One
        /\ Val(fusion.result).sources_used = 1

\* A float that is a power of two: multiplying and dividing by it is exact.
IsPowerOfTwo(w) ==
    \E e \in 0..30 : w = <<2^e, 1>> \/ w = <<1, 2^e>>

\* C13 as amended: for such a list fuse_measurements returns confidence
\* equal to 1.0, sources_used = 1 and best_estimate equal to the float
\* (value * weight) / weight, which is the source's value up to the two
\* roundings (relative error at most 3 * 2^-MantissaBits) and is exactly
\* the value when the weight is a power of two; this for negative and
\* very large values too.
C13_SingleSourceWithinRounding ==
    SingleFreshSource =>
        /\ Returned
        /\ LET r == Val(fusion.result)
               v == sources[1].value
               w == Val(sources[1].weight)
           IN
           /\ r.best_estimate = Over(Times(Whole(v), w), w)
           /\ Abs(r.best_estimate[1] - v * r.best_estimate[2])
                  * 2^MantissaBits
                <= 3 * Abs(v) * r.best_estimate[2]
           /\ IsPowerOfTwo(w) => r.best_estimate = Whole(v)
           /\ r.confidence = One
           /\ r.sources_used = 1

\* A very large reading with the table weight of "snotel" (0.4): the
\* estimate is not the reading.
C13_Witness ==
    /\ SingleFreshSource
    /\ Returned
    /\ built.source_name = "snotel"
    /\ IsNone(built.weight)
    /\ sources[1].value = 13 * 2^13
    /\ Val(fusion.result).best_estimate # Whole(sources[1].value)
    /\ Val(fusion.result).confidence = One

\* The single reading with its timestamp replaced by the reference time.
ReadingTakenNow == [sources[1] EXCEPT !.timestamp = Now]

\* C15: calculate_age_factor returns exactly 1.0 for age 0 and for every
\* negative age, and decay_rate raised to the age for every positive age
\* (non-increasing in age when 0 < decay_rate <= 1); so a source with a
\* future timestamp is weighted in fuse_measurements exactly as a source of
\* age 0 and is not dropped by the age filter.
C15_AgeFactor ==
    (fusion.called /\ Len(sources) = 1) =>
        LET age == AgeOf(sources[1])
            rate == fusion.decay_rate
            factor == calculate_age_factor(age, rate)
        IN
        /\ age <= 0 => factor = One
        /\ (age > 0 /\ ~calculate_age_factor_raises(age, rate)) =>
               factor = Round(<<rate[1]^age, rate[2]^age>>)
        /\ LessEq(rate, One) =>
               \A older \in (age + 1)..(MaxClock + 1) :
                   LessEq(calculate_age_factor(older, rate), factor)
        /\ age < 0 =>
               /\ 1 \in Survivors(sources)
               /\ EffectiveWeightOf(sources[1]) =
                      Times(Times(Val(sources[1].weight),
                                  sources[1].confidence), One)
               /\ fusion.result =
                      fuse_measurements(<<ReadingTakenNow>>,
                                        fusion.max_age_hours, Now,
                                        fusion.decay_rate)
               /\ Returned =>
                      Val(fusion.result).confidence =
                          MinFrac(One, sources[1].confidence)

\* A reading from one hour in the future, confidence 1/2, fused with decay
\* rate 1/2 and max_age_hours 0.
C15_Witness ==
    /\ Returned
    /\ Len(sources) = 1
    /\ AgeOf(sources[1]) < 0
    /\ sources[1].confidence = <<1, 2>>
    /\ fusion.decay_rate = <<1, 2>>
    /\ fusion.max_age_hours = 0
    /\ Val(fusion.result).confidence = <<1, 2>>
    /\ Val(fusion.result).sources_used = 1

\* The accumulators at the end of the loop of the last call.
LoopResult ==
    Loop([weighted_sum |-> Zero, total_weight |-> Zero,
          sources_used |-> 0, total_base_weight |-> Zero],
         sources, 1, fusion.max_age_hours, Now, fusion.decay_rate)

\* C16: neither core function has an error outcome: for every input
\* calculate_with_description returns a (score, tier) pair and
\* fuse_measurements returns a FusionResult or None; the division for
\* best_estimate is reached only when total_weight is nonzero and the one
\* for confidence only when total_base_weight > 0, also with zero or
\* negative weights and zero confidence.
C16_NoErrorOutcome ==
    /\ quality.called =>
           (quality.score \in 0..100 /\ quality.description \in Tiers)
    /\ fusion.called =>
           /\ fusion.raised = ""
           /\ Returned => LoopResult.total_weight # Zero
           /\ (Returned /\ ~Less(Zero, LoopResult.total_base_weight)) =>
                  Val(fusion.result).confidence = Zero

\* The table of base weights, as the floats nearest to the decimals.
TableWeight(source_name) ==
    CASE source_name = "resort_official" -> Round(<<5, 10>>)
      [] source_name = "snotel" -> Round(<<4, 10>>)
      [] source_name = "weather_api" -> Round(<<1, 10>>)
      [] source_name \notin {"resort_official", "snotel", "weather_api"} ->
             Round(<<1, 10>>)

\* C18: a source's weight is populated before it is used: a DataSource
\* built, directly or through create_data_source, without a weight gets
\* the table value of its source_name (resort_official 0.5, snotel 0.4,
\* weather_api 0.1, any other name 0.1); a weight given explicitly, 0.0
\* included, is kept and never replaced by the table value.
C18_WeightPopulated ==
    sources # <<>> =>
        LET source == sources[1] IN
        /\ built.via \in {"DataSource", "create_data_source"}
        /\ source.source_name = built.source_name
        /\ ~IsNone(source.weight)
        /\ IsNone(built.weight) =>
               source.weight = Some(TableWeight(built.source_name))
        /\ ~IsNone(built.weight) => source.weight = built.weight
        /\ LoopWeight(source) = Val(source.weight)

\* create_data_source with weight=0.0 for a "snotel" reading: the weight
\* stays 0.0 and the reading fuses to None.
C18_Witness ==
    /\ sources # <<>>
    /\ built.via = "create_data_source"
    /\ built.source_name = "snotel"
    /\ built.weight = Some(Zero)
    /\ sources[1].weight = Some(Zero)
    /\ sources[1].confidence = One
    /\ fusion.called
    /\ IsNone(fusion.result)

\* The same moment given as an aware UTC datetime; a naive datetime reads
\* as UTC.
AsAwareUTC(dt) ==
    CASE IsNone(dt.utcoffset) -> DateTime(dt.hour, UTC)
      [] ~IsNone(dt.utcoffset) -> DateTime(dt.hour - Val(dt.utcoffset), UTC)

\* The clock as the caller may pass it: aware UTC, naive, aware UTC+1.
ReferenceForms ==
    {DateTime(clock, UTC), DateTime(clock, None), DateTime(clock + 1, Some(1))}

\* C19: calculate_age_hours treats a timestamp or a reference time without
\* a time zone as UTC before subtracting: for every combination of naive
\* and aware arguments it returns reference - timestamp in hours, the same
\* as when both are given as aware UTC instants, negative when the
\* timestamp lies in the future.
C19_AgeHoursTimeZones ==
    (fusion.called /\ Len(sources) = 1) =>
        LET timestamp == sources[1].timestamp IN
        /\ \A reference \in ReferenceForms :
               LET age_hours == calculate_age_hours(timestamp, reference) IN
               /\ age_hours = clock - AsAwareUTC(timestamp).hour
               /\ age_hours = calculate_age_hours(AsAwareUTC(timestamp),
                                                  AsAwareUTC(reference))
               /\ age_hours < 0 <=> AsAwareUTC(timestamp).hour > clock
        /\ (/\ fusion.raised = ""
            /\ Val(sources[1].weight) # Zero
            /\ sources[1].confidence # Zero)
               => (Returned <=>
                       clock - AsAwareUTC(timestamp).hour
                           <= fusion.max_age_hours)

\* A naive timestamp one hour ahead of the reference time: age -1.
C19_Witness ==
    /\ Returned
    /\ Len(sources) = 1
    /\ sources[1].timestamp = DateTime(1, None)
    /\ clock = 0
    /\ calculate_age_hours(sources[1].timestamp, DateTime(clock, None)) = -1
    /\ calculate_age_hours(sources[1].timestamp, DateTime(clock, UTC)) = -1

---------------------------------------------------------------------------
(* Claims about a repeated call, checked under SpecRepeat *)

\* C17: fuse_measurements is deterministic for a fixed reference time: two
\* calls with identical sources, max_age_hours, current_time and decay_rate
\* end alike (both None, or FusionResults equal in all four fields),
\* whatever calls were made, and however much time passed, before or in
\* between.
C17_Deterministic ==
    earlier.again =>
        /\ earlier.again_raised = earlier.raised
        /\ IsNone(earlier.again_result) <=> IsNone(earlier.result)
        /\ ~IsNone(earlier.result) =>
               LET first == Val(earlier.result)
                   second == Val(earlier.again_result)
               IN /\ second.best_estimate = first.best_estimate
                  /\ second.confidence = first.confidence
                  /\ second.sources_used = first.sources_used
                  /\ second.total_sources = first.total_sources

\* The call is repeated two hours later, after another call, and returns
\* the same FusionResult.
C17_Witness ==
    /\ earlier.again
    /\ ~IsNone(earlier.result)
    /\ earlier.again_result = earlier.result
    /\ earlier.current_time = Some(DateTime(0, UTC))
    /\ clock = 2
    /\ Returned
    /\ fusion.result # earlier.result

---------------------------------------------------------------------------
(* Claims about calls running in parallel, checked under SpecParallel *)

\* What thread t's call returns when nothing else runs: the outcome of
\* fuse_measurements on the caller's list with the thread's arguments.
Alone(t) ==
    Outcome(sources, threads[t].max_age_hours,
            Some(threads[t].current_time), threads[t].decay_rate)

\* A step of a call: a thread of fuse_measurements moves, or
\* calculate_quality_score returns.
CallStep ==
    \/ threads' # threads
    \/ quality'.called /\ ~quality.called

\* C20: fuse_measurements and calculate_quality_score only read their
\* arguments: no step of a call changes a field of an input DataSource
\* (weight included), of the SnowConditions, or the module-level
\* SOURCE_WEIGHTS, so a call that finishes while another runs on the same
\* inputs returns what it would return alone.
C20_ReadOnlyCalls ==
    /\ [][CallStep =>
              /\ sources' = sources
              /\ conditions' = conditions
              /\ source_weights' = source_weights]_vars
    /\ [](\A t \in Threads :
              threads[t].pc = "done" =>
                  /\ threads[t].raised = Alone(t).raised
                  /\ threads[t].result = Alone(t).result)
    /\ [](quality.called =>
              quality.score = calculate_quality_score(conditions))

\* Both threads ran their loop on the same reading before either returned;
\* the one started at hour 0 returned a result, the one started at the last
\* hour found the reading too old; the snapshot was scored in between.
C20_Witness ==
    /\ threads["first"].pc = "done"
    /\ threads["second"].pc = "loop"
    /\ threads["second"].i = 2
    /\ threads["first"].current_time = DateTime(0, UTC)
    /\ threads["second"].current_time = DateTime(MaxClock, UTC)
    /\ ~IsNone(threads["first"].result)
    /\ threads["second"].acc.sources_used = 0
    /\ sources[1].weight = Some(SourceWeightsTable.snotel)
    /\ quality.called

---------------------------------------------------------------------------
(* Claims about several gathered readings, checked under SpecGathered *)

\* Indices of the sources whose age is exactly max_age_hours, and of those
\* that are older.
AtMaxAge(srcs) ==
    {i \in 1..Len(srcs) : AgeOf(srcs[i]) = fusion.max_age_hours}
Older(srcs) ==
    {i \in 1..Len(srcs) : AgeOf(srcs[i]) > fusion.max_age_hours}

\* The effective weight of a source taken with the age factor
\* decay_rate^max_age_hours where its age is max_age_hours.
WeightAtMaxAge(s) ==
    IF AgeOf(s) = fusion.max_age_hours
    THEN Times(Times(Val(s.weight), s.confidence),
               Power(fusion.decay_rate, fusion.max_age_hours))
    ELSE EffectiveWeightOf(s)

RECURSIVE SumAtMaxAge(_, _, _)
SumAtMaxAge(i, srcs, weighted) ==
    IF i = 0 THEN Zero
    ELSE IF i \in Older(srcs) THEN SumAtMaxAge(i - 1, srcs, weighted)
    ELSE Plus(SumAtMaxAge(i - 1, srcs, weighted),
              IF weighted
              THEN Times(Whole(srcs[i].value), WeightAtMaxAge(srcs[i]))
              ELSE WeightAtMaxAge(srcs[i]))

\* The list with every source older than max_age_hours given another value.
OlderRevalued(srcs) ==
    [i \in 1..Len(srcs) |->
        IF i \in Older(srcs) THEN [srcs[i] EXCEPT !.value = 1000]
        ELSE srcs[i]]

\* C21: the age filter is strict.  In every result a source whose age is
\* exactly max_age_hours is counted in sources_used and enters
\* best_estimate with the age factor decay_rate^max_age_hours; a source
\* older than that is not counted and its value has no influence on the
\* outcome; when every source is older the call returns None.
C21_StrictAgeFilter ==
    fusion.called =>
        /\ Older(sources) = 1..Len(sources) => IsNone(fusion.result)
        /\ fusion.result =
               fuse_measurements(OlderRevalued(sources), fusion.max_age_hours,
                                 Now, fusion.decay_rate)
        /\ Returned =>
               LET r == Val(fusion.result) IN
               /\ r.sources_used = Len(sources) - Cardinality(Older(sources))
               /\ r.best_estimate =
                      Over(SumAtMaxAge(Len(sources), sources, TRUE),
                           SumAtMaxAge(Len(sources), sources, FALSE))

\* Three readings: one fresh, one exactly max_age_hours old, one older.
\* The first two are used.
C21_Witness ==
    /\ Returned
    /\ Len(sources) = 3
    /\ clock = 2
    /\ fusion.max_age_hours = 1
    /\ sources[1].timestamp = DateTime(0, UTC)
    /\ sources[2].timestamp = DateTime(1, None)
    /\ sources[3].timestamp = DateTime(1, None)
    /\ sources[1].value = -13
    /\ sources[2].value = 13
    /\ sources[3].value = -13
    /\ \A i \in 1..3 : sources[i].confidence = One
    /\ Val(fusion.result).sources_used = 2

\* Two sources with different values and equal positive base weights, both
\* within max_age_hours, fused to a result.
TwoSourcesFused ==
    /\ Returned
    /\ Len(sources) = 2
    /\ sources[1].value # sources[2].value
    /\ sources[1].weight = sources[2].weight
    /\ Less(Zero, Val(sources[1].weight))
    /\ Survivors(sources) = {1, 2}

\* |x - v| for a float x and a whole value v.
Distance(x, v) == <<Abs(x[1] - v * x[2]), x[2]>>

StrictlyBetween(x, u, v) ==
    \/ Less(Whole(u), x) /\ Less(x, Whole(v))
    \/ Less(Whole(v), x) /\ Less(x, Whole(u))

\* x is strictly closer to the value of source i than to that of the other.
StrictlyCloserTo(x, i) ==
    Less(Distance(x, sources[i].value), Distance(x, sources[3 - i].value))

DifferOnlyInAge ==
    /\ sources[1].confidence = sources[2].confidence
    /\ AgeOf(sources[1]) # AgeOf(sources[2])

DifferOnlyInConfidence ==
    /\ AgeOf(sources[1]) = AgeOf(sources[2])
    /\ sources[1].confidence # sources[2].confidence
    /\ Less(Zero, sources[1].confidence)
    /\ Less(Zero, sources[2].confidence)

\* The fresher, and the higher-confidence, of the two sources.
Fresher == IF AgeOf(sources[1]) < AgeOf(sources[2]) THEN 1 ELSE 2
MoreTrusted ==
    IF Less(sources[2].confidence, sources[1].confidence) THEN 1 ELSE 2

\* C22 as stated: for two sources with different values, equal positive
\* base weights and both within max_age_hours, best_estimate lies strictly
\* between the two values; if they differ only in age it is strictly closer
\* to the fresher source's value, and if they differ only in (positive)
\* confidence it is strictly closer to the higher-confidence source's value.
C22_PullsTowardsBetterSource ==
    TwoSourcesFused =>
        LET x == Val(fusion.result).best_estimate IN
        /\ StrictlyBetween(x, sources[1].value, sources[2].value)
        /\ DifferOnlyInAge => StrictlyCloserTo(x, Fresher)
        /\ DifferOnlyInConfidence => StrictlyCloserTo(x, MoreTrusted)

\* Fractions without rounding, for what a formula gives in exact
\* arithmetic.
ExactPlus(a, b) == Frac(a[1] * b[2] + b[1] * a[2], a[2] * b[2])
ExactTimes(a, b) == Frac(a[1] * b[1], a[2] * b[2])
ExactOver(a, b) ==
    IF b[1] < 0 THEN Frac(-(a[1] * b[2]), -(a[2] * b[1]))
    ELSE Frac(a[1] * b[2], a[2] * b[1])

\* weight * confidence * decay_rate^age (1 for an age <= 0), not rounded.
ExactWeightOf(s) ==
    ExactTimes(ExactTimes(Val(s.weight), s.confidence),
               IF AgeOf(s) <= 0 THEN One
               ELSE ExactPower(fusion.decay_rate, AgeOf(s)))

\* The weighted average of the two values in exact arithmetic.
ExactAverageOfTwo ==
    ExactOver(ExactPlus(ExactTimes(Whole(sources[1].value),
                                   ExactWeightOf(sources[1])),
                        ExactTimes(Whole(sources[2].value),
                                   ExactWeightOf(sources[2]))),
              ExactPlus(ExactWeightOf(sources[1]),
                        ExactWeightOf(sources[2])))

\* |x - y| for two fractions.
Gap(x, y) == <<Abs(x[1] * y[2] - y[1] * x[2]), x[2] * y[2]>>

MaxAbs(u, v) == IF Abs(u) >= Abs(v) THEN Abs(u) ELSE Abs(v)

\* C22 as amended: for two such sources with positive confidences the
\* weighted average in exact arithmetic lies strictly between the two
\* values; it is strictly closer to the fresher source's value if they
\* differ only in age and the older one has a positive age, and strictly
\* closer to the higher-confidence source's value if they differ only in
\* confidence.  best_estimate is the float (v1*w1 + v2*w2) / (w1 + w2),
\* which is that average up to rounding (at most 16 * 2^-MantissaBits of
\* the larger value) and can coincide with one of the two values or lie
\* just beyond it.
C22_PullsTowardsBetterSourceWithinRounding ==
    TwoSourcesFused =>
        LET x == Val(fusion.result).best_estimate
            exact == ExactAverageOfTwo
            older == sources[3 - Fresher]
        IN
        /\ (Less(Zero, sources[1].confidence)
               /\ Less(Zero, sources[2].confidence))
               => StrictlyBetween(exact, sources[1].value, sources[2].value)
        /\ (DifferOnlyInAge /\ AgeOf(older) > 0)
               => StrictlyCloserTo(exact, Fresher)
        /\ DifferOnlyInConfidence => StrictlyCloserTo(exact, MoreTrusted)
        /\ x = Over(Plus(Times(Whole(sources[1].value),
                               EffectiveWeightOf(sources[1])),
                         Times(Whole(sources[2].value),
                               EffectiveWeightOf(sources[2]))),
                    Plus(EffectiveWeightOf(sources[1]),
                         EffectiveWeightOf(sources[2])))
        /\ LessEq(<<Gap(x, exact)[1] * 2^MantissaBits, Gap(x, exact)[2]>>,
                  Whole(16 * MaxAbs(sources[1].value, sources[2].value)))

\* Two readings of the same age, one fully trusted and one hardly: the
\* estimate lies beyond the trusted reading, not between the two.
C22_Witness ==
    /\ TwoSourcesFused
    /\ DifferOnlyInConfidence
    /\ sources[1].value = 13
    /\ sources[1].confidence = One
    /\ sources[2].value = -13
    /\ Val(fusion.result).best_estimate = Whole(14)
    /\ Less(ExactAverageOfTwo, Whole(13))

\* A result was returned and every source that survived the age filter has
\* a non-negative weight and a non-negative confidence.
NonNegativeSurvivors ==
    /\ Returned
    /\ \A i \in Survivors(sources) :
           /\ LessEq(Zero, Val(sources[i].weight))
           /\ LessEq(Zero, sources[i].confidence)

\* The least and the greatest value among the surviving sources.
MinValue ==
    CHOOSE v \in {sources[i].value : i \in Survivors(sources)} :
        \A i \in Survivors(sources) : v <= sources[i].value
MaxValue ==
    CHOOSE v \in {sources[i].value : i \in Survivors(sources)} :
        \A i \in Survivors(sources) : sources[i].value <= v
MaxAbsValue == MaxAbs(MinValue, MaxValue)

\* Sums over the surviving sources in exact arithmetic.
RECURSIVE ExactSumEffective(_)
ExactSumEffective(I) ==
    IF I = {} THEN Zero
    ELSE LET i == CHOOSE x \in I : TRUE IN
         ExactPlus(ExactSumEffective(I \ {i}), ExactWeightOf(sources[i]))

RECURSIVE ExactSumWeightedValues(_)
ExactSumWeightedValues(I) ==
    IF I = {} THEN Zero
    ELSE LET i == CHOOSE x \in I : TRUE IN
         ExactPlus(ExactSumWeightedValues(I \ {i}),
                   ExactTimes(Whole(sources[i].value),
                              ExactWeightOf(sources[i])))

\* The weighted average of the surviving values in exact arithmetic.
ExactAverage ==
    ExactOver(ExactSumWeightedValues(Survivors(sources)),
              ExactSumEffective(Survivors(sources)))

\* C27 as stated: when every source that survives the age filter has a
\* non-negative weight and a non-negative confidence, best_estimate lies
\* between the minimum and the maximum value of the surviving sources.
C27_NeverExtrapolates ==
    NonNegativeSurvivors =>
        LET x == Val(fusion.result).best_estimate IN
        /\ LessEq(Whole(MinValue), x)
        /\ LessEq(x, Whole(MaxValue))

\* C27 as amended: for such a list the weighted average of the surviving
\* values lies, in exact arithmetic, between their minimum and their
\* maximum, and best_estimate is that average up to rounding: for n
\* surviving sources it differs from it by at most
\* (2n + 8) * 2^-MantissaBits times the largest absolute value, so it can
\* lie beyond the minimum or the maximum by that much and no more.
C27_NeverExtrapolatesBeyondRounding ==
    NonNegativeSurvivors =>
        LET x == Val(fusion.result).best_estimate
            n == Cardinality(Survivors(sources))
            slack == <<(2 * n + 8) * MaxAbsValue, 2^MantissaBits>>
        IN
        /\ LessEq(Whole(MinValue), ExactAverage)
        /\ LessEq(ExactAverage, Whole(MaxValue))
        /\ LessEq(Gap(x, ExactAverage), slack)
        /\ LessEq(ExactPlus(Whole(MinValue), <<-slack[1], slack[2]>>), x)
        /\ LessEq(x, ExactPlus(Whole(MaxValue), slack))

\* Two surviving readings of 13: the estimate is 14.
C27_Witness ==
    /\ NonNegativeSurvivors
    /\ Len(sources) = 2
    /\ Survivors(sources) = {1, 2}
    /\ sources[1].value = 13
    /\ sources[2].value = 13
    /\ Val(fusion.result).best_estimate = Whole(14)
    /\ ExactAverage = Whole(13)

\* fuse_measurements as the last call ran it, in exact arithmetic: the same
\* loop over the list in its order, every sum, product and quotient
\* without rounding.
ExactLoopBody(acc, s) ==
    LET base == ExactPlus(acc.total_base_weight, Val(s.weight)) IN
    IF AgeOf(s) > fusion.max_age_hours
    THEN [acc EXCEPT !.total_base_weight = base]
    ELSE [weighted_sum |->
              ExactPlus(acc.weighted_sum,
                        ExactTimes(Whole(s.value), ExactWeightOf(s))),
          total_weight |-> ExactPlus(acc.total_weight, ExactWeightOf(s)),
          sources_used |-> acc.sources_used + 1,
          total_base_weight |-> base]

RECURSIVE ExactLoop(_, _, _)
ExactLoop(acc, srcs, i) ==
    IF i > Len(srcs) THEN acc
    ELSE ExactLoop(ExactLoopBody(acc, srcs[i]), srcs, i + 1)

ExactFusion(srcs) ==
    IF srcs = <<>> THEN None
    ELSE
    LET acc == ExactLoop(InitialAccumulators, srcs, 1) IN
    IF acc.total_weight = Zero \/ acc.sources_used = 0 THEN None
    ELSE Some([best_estimate |->
                   ExactOver(acc.weighted_sum, acc.total_weight),
               confidence |->
                   IF Less(Zero, acc.total_base_weight)
                   THEN MinFrac(One, ExactOver(acc.total_weight,
                                               acc.total_base_weight))
                   ELSE Zero,
               sources_used |-> acc.sources_used,
               total_sources |-> Len(srcs)])

\* The list rearranged by the permutation p of its indices.
Permuted(srcs, p) == [i \in 1..Len(srcs) |-> srcs[p[i]]]

\* C28: in exact arithmetic the result does not depend on the order of the
\* source list: for every permutation of the list the call with the same
\* max_age_hours, current_time and decay_rate returns None in both cases,
\* or results with the same best_estimate, confidence, sources_used and
\* total_sources.  The call itself returns the same two counts as the
\* exact computation, and its best_estimate and confidence up to rounding.
C28_OrderIndependent ==
    fusion.called =>
        LET n == Len(sources)
            slack(bound) == <<(2 * n + 8) * bound, 2^MantissaBits>>
            exact == ExactFusion(sources)
        IN
        /\ \A p \in Permutations(1..n) :
               ExactFusion(Permuted(sources, p)) = exact
        /\ IsNone(fusion.result) <=> IsNone(exact)
        /\ Returned =>
               LET r == Val(fusion.result)
                   e == Val(exact)
               IN
               /\ r.sources_used = e.sources_used
               /\ r.total_sources = e.total_sources
               /\ LessEq(Gap(r.best_estimate, e.best_estimate),
                         slack(MaxAbsValue))
               /\ LessEq(Gap(r.confidence, e.confidence), slack(1))

\* Three readings whose fusion in floats changes with their order: read
\* backwards the same list gives another best_estimate, while the exact
\* results agree.
C28_Witness ==
    /\ Returned
    /\ Len(sources) = 3
    /\ Survivors(sources) = {1, 2, 3}
    /\ LET backwards ==
               fuse_measurements(Permuted(sources, [i \in 1..3 |-> 4 - i]),
                                 fusion.max_age_hours, Now, fusion.decay_rate)
       IN /\ ~IsNone(backwards)
          /\ Val(backwards).best_estimate # Val(fusion.result).best_estimate
          /\ Val(backwards).sources_used = 3

\* Every source has a positive weight and a confidence in [0, 1].
PositiveWeights ==
    \A i \in 1..Len(sources) :
        /\ Less(Zero, Val(sources[i].weight))
        /\ LessEq(Zero, sources[i].confidence)
        /\ LessEq(sources[i].confidence, One)

\* What the last call returns with the reference time set to the hour t.
ResultAt(t) ==
    fuse_measurements(sources, fusion.max_age_hours, DateTime(t, UTC),
                      fusion.decay_rate)

\* C29: for a fixed source list with positive weights and confidences in
\* [0, 1], and fixed max_age_hours and decay_rate in (0, 1], the outcome
\* only degrades as the reference time advances: if the call at a time
\* returns a result, the call at every earlier time returns a result with
\* at least that confidence and at least that sources_used; and once the
\* call returns None it returns None at every later time.
C29_DegradesWithTime ==
    (fusion.called /\ PositiveWeights) =>
        \A t1 \in 0..clock :
            /\ Returned =>
                   /\ ~IsNone(ResultAt(t1))
                   /\ LessEq(Val(fusion.result).confidence,
                             Val(ResultAt(t1)).confidence)
                   /\ Val(fusion.result).sources_used
                          <= Val(ResultAt(t1)).sources_used
            /\ IsNone(ResultAt(t1)) => IsNone(fusion.result)

\* Two fully trusted readings, both used with confidence 1 at hour 0; two
\* hours later one is too old and the other has decayed.
C29_Witness ==
    /\ Returned
    /\ PositiveWeights
    /\ Len(sources) = 2
    /\ clock = 2
    /\ Val(ResultAt(0)).sources_used = 2
    /\ Val(ResultAt(0)).confidence = One
    /\ Val(fusion.result).sources_used = 1
    /\ Val(fusion.result).confidence = <<1, 4>>

---------------------------------------------------------------------------
(* Claims about BaseScraper.run, checked under SpecRun *)

\* The run has returned or raised.
RunEnded == scraper.pc = "done"

\* The calls run makes, in order, as far as the run has come.
ExpectedTrace ==
    <<"start_run">>
    \o (IF scraper.scraped = "" THEN <<>> ELSE <<"scrape">>)
    \o (IF scraper.pc \in {"end_success", "end_failure", "done"}
           /\ scraper.scraped = "data"
        THEN <<"save_conditions">> ELSE <<>>)
    \o (IF RunEnded THEN <<"end_run">> ELSE <<>>)

C24_ReturnsEmptyDictOnFailure ==
    RunEnded =>
        /\ scraper.scraped = "data" /\ ~scraper.save_raised
               => scraper.outcome = "data"
        /\ scraper.scraped = "raise" \/ scraper.save_raised
               => scraper.outcome = "empty"

\* C30: after run has returned or raised, self.db is None and every session
\* that was opened has been closed.
C30_NoOpenSession ==
    RunEnded =>
        /\ IsNone(scraper.db)
        /\ scraper.closed = 1..scraper.opened

---------------------------------------------------------------------------
(* Claims about BaseScraper._fetch_url, checked under SpecFetch *)

\* The attempts of the call so far, and the last of them.
Made == Len(fetch.attempts)
LastAttempt == fetch.attempts[Made]

\* C25: one call of _fetch_url makes at most 3 attempts; it returns the
\* response of the first attempt that succeeds; every attempt after the
\* first follows an attempt that raised an httpx.HTTPError or a timeout; after
\* the third failed attempt, and after any other exception, the call raises
\* the exception of its last attempt and makes no further attempt; each
\* attempt creates one client with headers chosen for it.
C25_AtMostThreeAttempts ==
    /\ Made <= 3
    /\ \A i \in 1..(Made - 1) : fetch.attempts[i] \in Retried
    /\ fetch.pc = "attempt" => Made < 3
    /\ fetch.pc = "returned" =>
           /\ LastAttempt = "response"
           /\ fetch.result = "response"
    /\ fetch.pc = "raised" =>
           /\ LastAttempt # "response"
           /\ fetch.result = LastAttempt
           /\ LastAttempt \in Retried => Made = 3
    /\ Made > 0 /\ LastAttempt = "response" => fetch.pc = "returned"
    /\ Made > 0 /\ LastAttempt \notin Retried \cup {"response"}
           => fetch.pc = "raised"
    /\ Made = 3 /\ LastAttempt # "response" => fetch.pc = "raised"
    /\ fetch.clients = Made
    /\ Len(fetch.user_agents) = Made

\* The third attempt timed out after two HTTP errors, and the call raised
\* the timeout; the three clients had different User-Agents.
C25_Witness ==
    /\ fetch.pc = "raised"
    /\ fetch.attempts = <<"HTTPError", "HTTPError", "TimeoutException">>
    /\ fetch.result = "TimeoutException"
    /\ fetch.clients = 3
    /\ Cardinality({fetch.user_agents[i] : i \in 1..3}) = 3

---------------------------------------------------------------------------
(* Claims about create_conditions_bulk, checked under SpecBulk *)

\* The request is one the claim says is rejected.
Rejected ==
    \/ bulk.conditions = <<>>
    \/ Len(bulk.conditions) > 100
    \/ \E i \in 1..Len(bulk.conditions) :
           bulk.conditions[i].resort_id \notin Resorts

\* The rows the request added.
Added == table \ bulk.before

\* C26: a request whose list is empty, has more than 100 entries or names a
\* resort id that does not exist is answered 400 and adds no row; every
\* other request is answered 201 and adds one row per entry, with the score
\* the quality scorer gives the entry.
C26_AllOrNothing ==
    bulk.called =>
        /\ bulk.before \subseteq table
        /\ Rejected => bulk.status = 400 /\ Added = {}
        /\ ~Rejected =>
               /\ bulk.status = 201
               /\ Cardinality(Added) = Len(bulk.conditions)
               /\ \A i \in 1..Len(bulk.conditions) :
                      \E row \in Added, d \in {None} \cup {Some(n) : n \in 0..MaxBulk} :
                          /\ row.time = bulk.conditions[i].time
                          /\ row.resort_id = bulk.conditions[i].resort_id
                          /\ row.snow_quality_score =
                                 _calculate_snow_quality(bulk.conditions[i], d)[1]

===========================================================================
